---- MODULE Spec2Model ----
(***************************************************************************)
(* Model of the encrypted private knowledge base (KB) of Inword:           *)
(* services/kb-manager.ts (fetchAndDecryptKB, encryptAndSaveKB, mergeKBs,  *)
(* updateKB, smartMergeKB, dedupeAndLimit) over the user_private_kb row.   *)
(*                                                                         *)
(* Two specifications share the variables:                                 *)
(*   Spec      - callers running KB operations concurrently; every await   *)
(*               on the row store is one step, so calls interleave there;  *)
(*   SpecMerge - the pure merge functions applied to drawn inputs.         *)
(*                                                                         *)
(* Three more specifications cover what surrounds the KB row:              *)
(*   SpecVault   - lib/secure-storage.ts (the device key store) and the    *)
(*                 session, with fetchAndDecryptKB and encryptAndSaveKB    *)
(*                 reading both; Spec is the case of a signed-in user      *)
(*                 whose device key never changes;                         *)
(*   SpecJournal - app/(tabs)/journal.tsx: handleRatingSubmit and the      *)
(*                 background KB update it starts;                         *)
(*   SpecExtract - extractAllKBUpdates, as a direct caller of the model    *)
(*                 and as the caller of the extract-kb edge function,      *)
(*                 whose source does not load.                             *)
(*                                                                         *)
(* Two more apply pure functions to drawn inputs, as SpecMerge does:       *)
(*   SpecContext - createCompactContext;                                   *)
(*   SpecCrypto  - lib/encryption.ts: encrypt and decrypt, with the blob   *)
(*                 altered in storage between the two;                     *)
(*   SpecRecords - services/database.ts: the readers that decrypt journal  *)
(*                 entries, insights and chat messages.                    *)
(*                                                                         *)
(*   SpecDelete  - the calls of Spec together with deleteKB, from a row    *)
(*                 at version 2.                                           *)
(***************************************************************************)
EXTENDS Integers, Sequences, FiniteSets, TLC

VARIABLES
    table,    \* the rows of user_private_kb (SpecVault: of every user)
    pc,       \* pc[p]: where caller p stands in its current call
    loc,      \* loc[p]: the locals of caller p's current call
    calls,    \* number of calls started so far (SpecJournal: earlier updates;
              \* SpecVault: signOut and the sign-ins included)
    faults,   \* number of store errors the environment has produced
    fn,       \* arguments and results of the functions applied to inputs
    user,     \* the signed-in user supabase.auth.getUser() returns, or null
    secureStore,  \* the device key store: item name -> value, or null
    generated,    \* number of keys generateEncryptionKey has produced
    journal   \* SpecJournal: the state of one journal submission

vars == <<table, pc, loc, calls, faults, fn, user, secureStore, generated, journal>>

-----------------------------------------------------------------------------
(* Bounds of the model                                                     *)

MaxCurLen == 16     \* longest current list drawn in SpecMerge
MaxIncLen == 2      \* longest incoming list drawn in SpecMerge
MaxCalls  == 2      \* calls the callers start in Spec, in total
MaxFaults == 2      \* store errors the environment produces in Spec
MaxOther  == 1      \* earlier background updates running in SpecJournal
MaxMeanwhile == 1   \* sign-outs, sign-ins and changes of the goals during a submission
MaxVaultCalls == 3  \* calls, sign-ins and sign-outs started in SpecVault

-----------------------------------------------------------------------------
(* Strings of the KB                                                       *)

Fact(i) ==
    IF i = 1 THEN "works at TechCorp"
    ELSE IF i = 2 THEN "runs daily"
    ELSE "fact" \o ToString(i)

Prefix(k) == [i \in 1..k |-> Fact(i)]

SeqToSet(s) == {s[i] : i \in 1..Len(s)}

-----------------------------------------------------------------------------
(* kb-types.ts                                                             *)

GeneralListFields ==
    {"bio", "relationships", "work_school", "routines", "preferences",
     "values", "triggers_boundaries"}

NullMood == -1     \* mood_score_avg: null

EMPTY_GENERAL_KB ==
    [name_or_alias |-> "", bio |-> <<>>, relationships |-> <<>>,
     work_school |-> <<>>, routines |-> <<>>, preferences |-> <<>>,
     values |-> <<>>, triggers_boundaries |-> <<>>]

EMPTY_STATE_KB ==
    [window |-> "last_30_days", dominant_emotions |-> <<>>,
     mood_score_avg |-> NullMood, highs |-> <<>>, lows |-> <<>>,
     stressors |-> <<>>, protective_factors |-> <<>>, red_flags |-> <<>>,
     suggested_focus |-> <<>>]

EMPTY_GOALS_PROGRESS_KB == [goals |-> <<>>, updated_at |-> "t0"]

EMPTY_KB ==
    [general |-> EMPTY_GENERAL_KB, state_recent |-> EMPTY_STATE_KB,
     goals_progress |-> EMPTY_GOALS_PROGRESS_KB]

-----------------------------------------------------------------------------
(* kb-manager.ts: utilities                                                *)

\* Array.from(new Set(arr)): each value once, at its first position.
RECURSIVE Unique(_)
Unique(arr) ==
    IF arr = <<>> THEN <<>>
    ELSE LET init == Unique(SubSeq(arr, 1, Len(arr) - 1))
             last == arr[Len(arr)]
         IN  IF last \in SeqToSet(init) THEN init ELSE Append(init, last)

\* arr.slice(-n): the last n items; slice(-0) is slice(0), the whole array.
SliceLast(arr, n) ==
    IF n = 0 \/ Len(arr) <= n THEN arr
    ELSE SubSeq(arr, Len(arr) - n + 1, Len(arr))

\* A slice that keeps the whole array.
SliceFirstAll(arr, n) == arr

\* arr.slice(0, n)
SliceFirst(arr, n) == IF Len(arr) <= n THEN arr ELSE SubSeq(arr, 1, n)

dedupeAndLimitNoDedupe(arr, maxItems) == SliceLast(arr, maxItems)

dedupeAndLimitKeepFirst(arr, maxItems) == SliceFirst(Unique(arr), maxItems)

dedupeAndLimit(arr, maxItems) == SliceLast(Unique(arr), maxItems)

\* The literal caps smartMergeKB passes to dedupeAndLimit.
Cap(f) == IF f = "relationships" THEN 15 ELSE 10

-----------------------------------------------------------------------------
(* kb-manager.ts: mergeKBs (conflict resolution)                           *)

\* incoming.general.name_or_alias || current.general.name_or_alias
OrString(a, b) == IF a # "" THEN a ELSE b

mergeKBsIncomingWins(current, incoming) == incoming

mergeKBsCurrentWins(current, incoming) ==
    [general |->
        [k \in DOMAIN EMPTY_GENERAL_KB |->
            IF k = "name_or_alias"
            THEN OrString(current.general[k], incoming.general[k])
            ELSE IF Len(current.general[k]) > 0
                 THEN current.general[k] ELSE incoming.general[k]],
     state_recent |-> incoming.state_recent,
     goals_progress |-> incoming.goals_progress]

mergeKBs(current, incoming) ==
    [general |->
        [k \in DOMAIN EMPTY_GENERAL_KB |->
            IF k = "name_or_alias"
            THEN OrString(incoming.general[k], current.general[k])
            ELSE IF Len(incoming.general[k]) > 0
                 THEN incoming.general[k] ELSE current.general[k]],
     state_recent |-> incoming.state_recent,
     goals_progress |-> incoming.goals_progress]

-----------------------------------------------------------------------------
(* kb-manager.ts: the merges of updateKB and smartMergeKB                  *)

\* { ...a, ...b }
Spread(a, b) ==
    [k \in (DOMAIN a) \cup (DOMAIN b) |-> IF k \in DOMAIN b THEN b[k] ELSE a[k]]

Has(u, k) == k \in DOMAIN u

\* u?.k for an object or list k: <<>> when it is absent
Part(u, k) == IF Has(u, k) THEN u[k] ELSE <<>>

updateKBMerge(currentKB, updates) ==
    [general |-> Spread(currentKB.general, Part(updates, "general")),
     state_recent |-> Spread(currentKB.state_recent, Part(updates, "state_recent")),
     goals_progress |->
        Spread(currentKB.goals_progress, Part(updates, "goals_progress"))]

\* aiUpdates.state_recent?.k || currentKB.state_recent.k  (an array is truthy)
StateField(cur, inc, k) == IF Has(inc, k) THEN inc[k] ELSE cur[k]

\* aiUpdates.state_recent?.mood_score_avg ?? currentKB.state_recent.mood_score_avg
MoodField(cur, inc) ==
    IF Has(inc, "mood_score_avg") /\ inc.mood_score_avg # NullMood
    THEN inc.mood_score_avg ELSE cur.mood_score_avg

mergedGeneral(cur, inc) ==
    [k \in DOMAIN EMPTY_GENERAL_KB |->
        IF k = "name_or_alias"
        THEN OrString(IF Has(inc, k) THEN inc[k] ELSE "", cur[k])
        ELSE dedupeAndLimit(cur[k] \o Part(inc, k), Cap(k))]

\* A merge that spreads the update over the current state.
mergedStateRecentSpread(cur, inc) ==
    Spread(Spread(cur, inc), [window |-> "last_30_days"])

mergedStateRecent(cur, inc) ==
    LET base ==
          [window |-> "last_30_days",
           dominant_emotions |-> StateField(cur, inc, "dominant_emotions"),
           mood_score_avg |-> MoodField(cur, inc),
           highs |-> StateField(cur, inc, "highs"),
           lows |-> StateField(cur, inc, "lows"),
           stressors |-> StateField(cur, inc, "stressors"),
           protective_factors |-> StateField(cur, inc, "protective_factors"),
           red_flags |-> StateField(cur, inc, "red_flags"),
           suggested_focus |-> StateField(cur, inc, "suggested_focus")]
    IN  IF Has(cur, "year_summary")
        THEN Spread(base, [year_summary |-> cur.year_summary])
        ELSE base

\* A merge that adds the incoming goal records to the current ones.
mergedGoalsProgressAppend(cur, aiUpdates) ==
    IF Has(aiUpdates, "goals_progress")
    THEN [goals |-> cur.goals \o aiUpdates.goals_progress.goals,
          updated_at |-> aiUpdates.goals_progress.updated_at]
    ELSE cur

mergedGoalsProgress(cur, aiUpdates) ==
    IF Has(aiUpdates, "goals_progress") THEN aiUpdates.goals_progress ELSE cur

smartMerge(currentKB, aiUpdates) ==
    [general |-> mergedGeneral(currentKB.general, Part(aiUpdates, "general")),
     state_recent |->
        mergedStateRecent(currentKB.state_recent, Part(aiUpdates, "state_recent")),
     goals_progress |-> mergedGoalsProgress(currentKB.goals_progress, aiUpdates)]

-----------------------------------------------------------------------------
(* lib/encryption.ts and JSON, as kb-manager.ts uses them                  *)

DeviceKey == "key1"

Stringify(section) == [json |-> section]

Parse(text) == text.json

encrypt(plaintext, key) == [key |-> key, plaintext |-> plaintext]

decryptOk(blob, key) == blob.key = key

decrypt(blob, key) == blob.plaintext

Null == "null"

\* A cipher column holding NULL (the columns are nullable).
NullCipher == [key |-> Null, plaintext |-> Null]

IsNullCipher(blob) == blob.key = Null

\* The three ciphertexts encryptAndSaveKB computes from kb.
Ciphers(kb, key) ==
    [general_cipher |-> encrypt(Stringify(kb.general), key),
     state_recent_cipher |-> encrypt(Stringify(kb.state_recent), key),
     goals_progress_cipher |-> encrypt(Stringify(kb.goals_progress), key)]

\* A row of user_private_kb holding kb at version v.
RowOf(kb, key, v) == Spread(Ciphers(kb, key), [version |-> v])

\* fetchAndDecryptKB on the rows a select returned: a column that holds NULL
\* is not decrypted (row.x_cipher ? ... : EMPTY_x), every other must decrypt.
CanDecrypt(data, key) ==
    data = <<>> \/
    \A c \in {"general_cipher", "state_recent_cipher", "goals_progress_cipher"} :
        IsNullCipher(data[1][c]) \/ decryptOk(data[1][c], key)

DecryptRows(data, key) ==
    IF data = <<>> THEN EMPTY_KB
    ELSE [general |->
              IF IsNullCipher(data[1].general_cipher) THEN EMPTY_GENERAL_KB
              ELSE Parse(decrypt(data[1].general_cipher, key)),
          state_recent |->
              IF IsNullCipher(data[1].state_recent_cipher) THEN EMPTY_STATE_KB
              ELSE Parse(decrypt(data[1].state_recent_cipher, key)),
          goals_progress |->
              IF IsNullCipher(data[1].goals_progress_cipher)
              THEN EMPTY_GOALS_PROGRESS_KB
              ELSE Parse(decrypt(data[1].goals_progress_cipher, key))]

-----------------------------------------------------------------------------
(* The row store (supabase-private-kb-schema.sql) as kb-manager.ts calls it *)

\* .update({...ciphers, version: v + 1}).eq("user_id", id).eq("version", v)
\* rewrites the rows the filter matches. The request asks for no single row
\* (.single() is not used), so a filter that matches no row is answered with
\* error = null: a moved version alone never produces an error. An error
\* object reaches the code only when the request itself fails
\* (SaveUpdateFails): the store rejected it, or its answer never arrived.
updateWhereUnconditional(rows, values, v) ==
    [i \in 1..Len(rows) |-> Spread(rows[i], values)]

updateWhereGeneralOnly(rows, values, v) ==
    [i \in 1..Len(rows) |->
        IF rows[i].version = v
        THEN Spread(rows[i], [general_cipher |-> values.general_cipher,
                              version |-> values.version])
        ELSE rows[i]]

updateWhere(rows, values, v) ==
    [i \in 1..Len(rows) |-> IF rows[i].version = v THEN Spread(rows[i], values) ELSE rows[i]]

\* Rows an update with that filter matches.
Matched(rows, v) == {i \in 1..Len(rows) : rows[i].version = v}

\* An update request the client is given an error for: the store rejected it
\* and no row is written, or (applied) the store wrote the rows and its answer
\* was lost on the way back, which supabase-js reports as an error as well.
failedUpdate(rows, values, v, applied) ==
    IF applied THEN updateWhere(rows, values, v) ELSE rows

\* An error answered by the store itself (a code of PostgREST or Postgres)
\* belongs to a request that was not applied; only a failure of the
\* transport leaves open whether it was.
MayBeApplied(code) == code = "OTHER"

InsertOkAlways(rows) == TRUE

\* .insert({...}): UNIQUE(user_id) rejects a second row of the user.
InsertOk(rows) == rows = <<>>

-----------------------------------------------------------------------------
(* Callers and the inputs they pass                                        *)

Procs == {"A", "B"}

KbA ==
    [general |-> Spread(EMPTY_GENERAL_KB,
                        [name_or_alias |-> "Sam", bio |-> <<Fact(1)>>]),
     state_recent |-> Spread(EMPTY_STATE_KB, [mood_score_avg |-> 3]),
     goals_progress |-> EMPTY_GOALS_PROGRESS_KB]

KbB ==
    [general |-> Spread(EMPTY_GENERAL_KB,
                        [bio |-> <<Fact(2)>>, relationships |-> <<Fact(3)>>]),
     state_recent |-> Spread(EMPTY_STATE_KB, [highs |-> <<"promoted">>]),
     goals_progress |-> [goals |-> <<>>, updated_at |-> "t1"]]

SaveInputs == {KbA, KbB}

\* The KB an earlier session of the user left in the store.
Kb0 ==
    [general |-> Spread(EMPTY_GENERAL_KB,
                        [bio |-> <<Fact(3)>>, values |-> <<Fact(4)>>]),
     state_recent |-> EMPTY_STATE_KB,
     goals_progress |-> EMPTY_GOALS_PROGRESS_KB]

UpdateInputs ==
    {[general |-> [bio |-> <<Fact(1), Fact(1)>>]],
     [general |-> [values |-> Prefix(11)]]}

SmartInputs ==
    {[general |-> [bio |-> <<Fact(1)>>]],
     [general |-> [bio |-> <<Fact(2)>>, name_or_alias |-> "Alex"],
      state_recent |-> [mood_score_avg |-> 4]]}

\* Error codes a failed store request carries.
ErrorCodes == {"PGRST116", "OTHER"}

NoCall ==
    [op |-> "none", arg |-> <<>>, kb |-> EMPTY_KB, retryOnConflict |-> TRUE,
     existing |-> 0, result |-> "none", error |-> "",
     \* what the call has done so far
     currentKB |-> EMPTY_KB, fetchedVersion |-> 0, firstSeen |-> 0,
     attempts |-> 0, conflicts |-> 0, wrote |-> 0, faulted |-> FALSE,
     stale |-> FALSE]

-----------------------------------------------------------------------------
(* The session and the device key store (lib/secure-storage.ts)            *)

SignedIn == "u1"

ENCRYPTION_KEY_NAME == "user_kb_encryption_key"

KEY_BACKUP_FLAG == "user_kb_key_backup_enabled"

\* The two items of the key store.
StoreOf(key, flag) == (ENCRYPTION_KEY_NAME :> key) @@ (KEY_BACKUP_FLAG :> flag)

JournalIdle == [phase |-> "off"]

-----------------------------------------------------------------------------
(* Spec: initial state                                                     *)

FnIdle == [phase |-> "off"]

\* The store holds no row of the user, or the row of a first save.
Init ==
    /\ table \in {<<>>, <<RowOf(Kb0, DeviceKey, 1)>>}
    /\ pc = [p \in Procs |-> "idle"]
    /\ loc = [p \in Procs |-> NoCall]
    /\ calls = 0
    /\ faults = 0
    /\ fn = FnIdle
    /\ user = SignedIn
    /\ secureStore = StoreOf(DeviceKey, Null)
    /\ generated = 1
    /\ journal = JournalIdle

\* The call returns or throws; its locals stay readable until the next call.
Return(p, l, result, error) ==
    /\ pc' = [pc EXCEPT ![p] = "idle"]
    /\ loc' = [loc EXCEPT ![p] = Spread(l, [result |-> result, error |-> error])]

Goto(p, l, label) ==
    /\ pc' = [pc EXCEPT ![p] = label]
    /\ loc' = [loc EXCEPT ![p] = l]

-----------------------------------------------------------------------------
(* Calls                                                                   *)

\* encryptAndSaveKB(kb): up to the select of id, version.
CallSave(p) ==
    /\ pc[p] = "idle" /\ calls < MaxCalls
    /\ \E kb \in SaveInputs :
          Goto(p, Spread(NoCall, [op |-> "save", arg |-> kb, kb |-> kb]), "select")
    /\ calls' = calls + 1
    /\ UNCHANGED <<table, faults, fn, user, secureStore, generated, journal>>

\* updateKB(updates): up to the select of fetchAndDecryptKB.
CallUpdate(p) ==
    /\ pc[p] = "idle" /\ calls < MaxCalls
    /\ \E u \in UpdateInputs :
          Goto(p, Spread(NoCall, [op |-> "update", arg |-> u]), "fetch")
    /\ calls' = calls + 1
    /\ UNCHANGED <<table, faults, fn, user, secureStore, generated, journal>>

\* smartMergeKB(aiUpdates): up to the select of fetchAndDecryptKB.
CallSmart(p) ==
    /\ pc[p] = "idle" /\ calls < MaxCalls
    /\ \E u \in SmartInputs :
          Goto(p, Spread(NoCall, [op |-> "smart", arg |-> u]), "fetch")
    /\ calls' = calls + 1
    /\ UNCHANGED <<table, faults, fn, user, secureStore, generated, journal>>

-----------------------------------------------------------------------------
(* fetchAndDecryptKB                                                       *)

\* The KB a caller saves after its fetch returned currentKB.
KbToSave(l, currentKB) ==
    IF l.op = "update" THEN updateKBMerge(currentKB, l.arg)
    ELSE IF l.op = "smart" THEN smartMerge(currentKB, l.arg)
    ELSE mergeKBs(currentKB, l.kb)

Fetched(l) ==
    Spread(l, [currentKB |-> DecryptRows(table, DeviceKey),
               fetchedVersion |-> IF table = <<>> THEN 0 ELSE table[1].version,
               kb |-> KbToSave(l, DecryptRows(table, DeviceKey))])

\* updateKB / smartMergeKB: select *, decrypt, merge, enter encryptAndSaveKB.
Fetch(p) ==
    /\ pc[p] = "fetch"
    /\ IF CanDecrypt(table, DeviceKey)
       THEN Goto(p, Fetched(loc[p]), "select")
       ELSE Return(p, loc[p], "err", "decrypt")
    /\ UNCHANGED <<table, calls, faults, fn, user, secureStore, generated, journal>>

\* The conflict branch of encryptAndSaveKB: fetch, mergeKBs of the fetched KB
\* with the KB the call was saving, save without retry.
RefetchAndMerge(p) ==
    /\ pc[p] = "refetch"
    /\ IF CanDecrypt(table, DeviceKey)
       THEN Goto(p, Spread(Fetched(loc[p]),
                           [kb |-> mergeKBs(DecryptRows(table, DeviceKey), loc[p].kb),
                            retryOnConflict |-> FALSE]), "select")
       ELSE Return(p, loc[p], "err", "decrypt")
    /\ UNCHANGED <<table, calls, faults, fn, user, secureStore, generated, journal>>

\* The select of fetchAndDecryptKB fails: the error is thrown to the caller.
FetchFails(p) ==
    /\ pc[p] \in {"fetch", "refetch"} /\ faults < MaxFaults
    /\ \E code \in ErrorCodes :
          Return(p, Spread(loc[p], [faulted |-> TRUE]), "err", code)
    /\ faults' = faults + 1
    /\ UNCHANGED <<table, calls, fn, user, secureStore, generated, journal>>

-----------------------------------------------------------------------------
(* encryptAndSaveKB                                                        *)

\* select id, version: existing = the first row, or null (0).
SaveSelect(p) ==
    /\ pc[p] = "select"
    /\ LET v == IF table = <<>> THEN 0 ELSE table[1].version
       IN  Goto(p, Spread(loc[p],
                     [existing |-> v,
                      firstSeen |-> IF loc[p].attempts = 0 THEN v
                                    ELSE loc[p].firstSeen]), "write")
    /\ UNCHANGED <<table, calls, faults, fn, user, secureStore, generated, journal>>

\* The select fails: its error is not read, existingRows is null, existing null.
SaveSelectFails(p) ==
    /\ pc[p] = "select" /\ faults < MaxFaults
    /\ Goto(p, Spread(loc[p], [existing |-> 0, faulted |-> TRUE]), "write")
    /\ faults' = faults + 1
    /\ UNCHANGED <<table, calls, fn, user, secureStore, generated, journal>>

\* The update returns no error, whether or not its filter matched a row.
SaveUpdate(p) ==
    /\ pc[p] = "write" /\ loc[p].existing # 0
    /\ LET l == loc[p]
           hit == Matched(table, l.existing) # {}
       IN  /\ table' = updateWhere(table,
                          Spread(Ciphers(l.kb, DeviceKey),
                                 [version |-> l.existing + 1]), l.existing)
           /\ Return(p, Spread(l, [attempts |-> l.attempts + 1,
                                   conflicts |-> l.conflicts + (IF hit THEN 0 ELSE 1),
                                   wrote |-> IF hit THEN l.existing + 1 ELSE l.wrote]),
                     "ok", "")
    /\ UNCHANGED <<calls, faults, fn, user, secureStore, generated, journal>>

\* The update request fails and returns an error, whatever the stored version
\* is; the code reads error.code: code PGRST116 with retryOnConflict enters the
\* conflict branch, any other error is thrown. stale records whether the
\* stored version had moved when the request failed.
SaveUpdateFails(p) ==
    /\ pc[p] = "write" /\ loc[p].existing # 0 /\ faults < MaxFaults
    /\ \E code \in ErrorCodes, applied \in BOOLEAN :
          /\ applied => MayBeApplied(code)
          /\ table' = failedUpdate(table,
                          Spread(Ciphers(loc[p].kb, DeviceKey),
                                 [version |-> loc[p].existing + 1]),
                          loc[p].existing, applied)
          /\ LET l == Spread(loc[p], [attempts |-> loc[p].attempts + 1,
                                   faulted |-> TRUE,
                                   stale |-> Matched(table, loc[p].existing) = {},
                                   wrote |-> IF table' # table
                                             THEN loc[p].existing + 1
                                             ELSE loc[p].wrote])
             IN  IF code = "PGRST116" /\ l.retryOnConflict
                 THEN Goto(p, l, "refetch")
                 ELSE Return(p, l, "err", code)
    /\ faults' = faults + 1
    /\ UNCHANGED <<calls, fn, user, secureStore, generated, journal>>

\* The insert of a first row at version 1; a second row of the user is rejected.
SaveInsert(p) ==
    /\ pc[p] = "write" /\ loc[p].existing = 0
    /\ LET l == Spread(loc[p], [attempts |-> loc[p].attempts + 1])
       IN  IF InsertOk(table)
           THEN /\ table' = Append(table, Spread(Ciphers(l.kb, DeviceKey),
                                                 [version |-> 1]))
                /\ Return(p, Spread(l, [wrote |-> 1]), "ok", "")
           ELSE /\ table' = table
                /\ Return(p, l, "err", "23505")
    /\ UNCHANGED <<calls, faults, fn, user, secureStore, generated, journal>>

\* The insert request fails in transport: the error is thrown; the row was
\* not written, or it was (it is accepted) and the answer was lost.
SaveInsertFails(p) ==
    /\ pc[p] = "write" /\ loc[p].existing = 0 /\ faults < MaxFaults
    /\ \E applied \in BOOLEAN :
          /\ applied => InsertOk(table)
          /\ table' = IF applied
                      THEN Append(table, Spread(Ciphers(loc[p].kb, DeviceKey),
                                                [version |-> 1]))
                      ELSE table
          /\ Return(p, Spread(loc[p], [attempts |-> loc[p].attempts + 1,
                                       faulted |-> TRUE,
                                       wrote |-> IF applied THEN 1 ELSE loc[p].wrote]),
                    "err", "OTHER")
    /\ faults' = faults + 1
    /\ UNCHANGED <<calls, fn, user, secureStore, generated, journal>>

Next ==
    \E p \in Procs :
        \/ CallSave(p)
        \/ CallUpdate(p)
        \/ CallSmart(p)
        \/ Fetch(p)
        \/ RefetchAndMerge(p)
        \/ FetchFails(p)
        \/ SaveSelect(p)
        \/ SaveSelectFails(p)
        \/ SaveUpdate(p)
        \/ SaveUpdateFails(p)
        \/ SaveInsert(p)
        \/ SaveInsertFails(p)

Spec == Init /\ [][Next]_vars

-----------------------------------------------------------------------------
(* SpecDelete: the calls of Spec together with deleteKB, under the schema  *)
(* of supabase-private-kb-schema.sql                                       *)

\* The store holds the row a user's first two saves left.
InitDelete ==
    /\ table = <<RowOf(Kb0, DeviceKey, 2)>>
    /\ pc = [p \in Procs |-> "idle"]
    /\ loc = [p \in Procs |-> NoCall]
    /\ calls = 0
    /\ faults = 0
    /\ fn = FnIdle
    /\ user = SignedIn
    /\ secureStore = StoreOf(DeviceKey, Null)
    /\ generated = 1
    /\ journal = JournalIdle

\* A table whose policies let the user delete the row.
deleteWhereRemoves(rows) == <<>>

\* .delete().eq("user_id", id): row level security is enabled on
\* user_private_kb and its policies are FOR SELECT, FOR INSERT and FOR UPDATE
\* only, so the request of the user matches no row and returns no error.
deleteWhere(rows) == rows

\* deleteKB(): up to the delete request. present will record the version of
\* the row stored when the request was served, removed the version of the row
\* it removed (0: none).
CallDelete(p) ==
    /\ pc[p] = "idle" /\ calls < MaxCalls
    /\ Goto(p, Spread(NoCall, [op |-> "delete", present |-> 0, removed |-> 0]),
            "delete")
    /\ calls' = calls + 1
    /\ UNCHANGED <<table, faults, fn, user, secureStore, generated, journal>>

\* The delete request returns without error: "KB deleted" is logged.
DeleteRow(p) ==
    /\ pc[p] = "delete"
    /\ table' = deleteWhere(table)
    /\ Return(p, Spread(loc[p],
                    [present |-> IF table = <<>> THEN 0 ELSE table[1].version,
                     removed |-> IF table # <<>> /\ table' = <<>>
                                 THEN table[1].version ELSE 0]), "ok", "")
    /\ UNCHANGED <<calls, faults, fn, user, secureStore, generated, journal>>

\* The delete request fails: the error is thrown and the row stays.
DeleteRowFails(p) ==
    /\ pc[p] = "delete" /\ faults < MaxFaults
    /\ \E code \in ErrorCodes :
          Return(p, Spread(loc[p], [faulted |-> TRUE]), "err", code)
    /\ faults' = faults + 1
    /\ UNCHANGED <<table, calls, fn, user, secureStore, generated, journal>>

NextDelete ==
    \E p \in Procs :
        \/ CallSave(p)
        \/ CallUpdate(p)
        \/ CallSmart(p)
        \/ CallDelete(p)
        \/ Fetch(p)
        \/ RefetchAndMerge(p)
        \/ FetchFails(p)
        \/ SaveSelect(p)
        \/ SaveSelectFails(p)
        \/ SaveUpdate(p)
        \/ SaveUpdateFails(p)
        \/ SaveInsert(p)
        \/ SaveInsertFails(p)
        \/ DeleteRow(p)
        \/ DeleteRowFails(p)

SpecDelete == InitDelete /\ [][NextDelete]_vars

-----------------------------------------------------------------------------
(* SpecMerge: mergeKBs and the merge of smartMergeKB on drawn inputs       *)

GoalItem(id, percent) ==
    [goal_id |-> id, progress_notes |-> <<"note">>, progress_percent |-> percent,
     next_actions |-> <<"next">>, risks_blockers |-> <<>>, momentum_score |-> 5]

RichState ==
    Spread(EMPTY_STATE_KB,
           [dominant_emotions |-> <<"anxious">>, mood_score_avg |-> 3,
            highs |-> <<"promoted">>, year_summary |-> "a steady year"])

\* What the current KB holds besides the list under test.
CurRest ==
    {EMPTY_KB,
     [general |-> Spread(EMPTY_GENERAL_KB, [name_or_alias |-> "Sam"]),
      state_recent |-> RichState,
      goals_progress |-> [goals |-> <<GoalItem("g1", 40)>>, updated_at |-> "t1"]]}

\* What the incoming side holds besides the list under test: as a whole KB
\* (mergeKBs) and as the partial update of an extraction (smartMergeKB).
IncRest ==
    {[kb |-> [general |-> EMPTY_GENERAL_KB,
              state_recent |-> Spread(EMPTY_STATE_KB, [lows |-> <<"tired">>]),
              goals_progress |-> [goals |-> <<>>, updated_at |-> "t2"]],
      upd |-> [general |-> <<>>]],
     [kb |-> [general |-> Spread(EMPTY_GENERAL_KB, [name_or_alias |-> "Alex"]),
              state_recent |-> Spread(EMPTY_STATE_KB, [mood_score_avg |-> 4]),
              goals_progress |->
                 [goals |-> <<GoalItem("g2", 10)>>, updated_at |-> "t3"]],
      upd |-> [general |-> [name_or_alias |-> "Alex"],
               state_recent |-> [mood_score_avg |-> 4, highs |-> <<>>],
               goals_progress |->
                  [goals |-> <<GoalItem("g2", 10)>>, updated_at |-> "t3"]]],
     [kb |-> [general |-> EMPTY_GENERAL_KB,
              state_recent |->
                 Spread(EMPTY_STATE_KB, [dominant_emotions |-> <<"calm">>,
                                         year_summary |-> "another year"]),
              goals_progress |-> [goals |-> <<>>, updated_at |-> "t4"]],
      upd |-> [general |-> <<>>,
               state_recent |->
                  [window |-> "last_7_days", dominant_emotions |-> <<"calm">>,
                   mood_score_avg |-> NullMood, lows |-> <<>>,
                   year_summary |-> "another year"],
               goals_progress |-> [goals |-> <<>>, updated_at |-> "t4"]]]}

CurLists ==
    {Prefix(k) : k \in 0..MaxCurLen} \cup {Prefix(k) \o Prefix(1) : k \in 1..2}

IncFacts == {Fact(1), Fact(2), Fact(MaxCurLen + 1)}

IncLists == UNION {[1..n -> IncFacts] : n \in 0..MaxIncLen}

WithList(general, f, list) == Spread(general, f :> list)

FnArgs(f, c, i, rc, ri) ==
    [phase |-> "args", field |-> f,
     current |-> Spread(rc, [general |-> WithList(rc.general, f, c)]),
     incoming |-> Spread(ri.kb, [general |-> WithList(ri.kb.general, f, i)]),
     updates |-> Spread(ri.upd, [general |-> WithList(ri.upd.general, f, i)]),
     out |-> EMPTY_KB, again |-> EMPTY_KB]

InitMerge ==
    /\ table = <<>>
    /\ pc = [p \in Procs |-> "idle"]
    /\ loc = [p \in Procs |-> NoCall]
    /\ calls = 0
    /\ faults = 0
    /\ user = SignedIn
    /\ secureStore = StoreOf(DeviceKey, Null)
    /\ generated = 1
    /\ journal = JournalIdle
    /\ \E f \in GeneralListFields, c \in CurLists, i \in IncLists,
          rc \in CurRest, ri \in IncRest :
          fn = FnArgs(f, c, i, rc, ri)

\* mergeKBs(current, incoming)
ApplyMergeKBs ==
    /\ fn.phase = "args"
    /\ fn' = Spread(fn, [phase |-> "mergeKBs",
                         out |-> mergeKBs(fn.current, fn.incoming)])
    /\ UNCHANGED <<table, pc, loc, calls, faults, user, secureStore, generated, journal>>

\* The KB smartMergeKB(updates) saves when its fetch returned current.
ApplySmartMerge ==
    /\ fn.phase = "args"
    /\ fn' = Spread(fn, [phase |-> "smartMerge",
                         out |-> smartMerge(fn.current, fn.updates)])
    /\ UNCHANGED <<table, pc, loc, calls, faults, user, secureStore, generated, journal>>

\* The same updates merged a second time, onto the result of the first merge.
ApplySmartMergeAgain ==
    /\ fn.phase = "smartMerge"
    /\ fn' = Spread(fn, [phase |-> "smartMergeAgain",
                         again |-> smartMerge(fn.out, fn.updates)])
    /\ UNCHANGED <<table, pc, loc, calls, faults, user, secureStore, generated, journal>>

NextMerge == ApplyMergeKBs \/ ApplySmartMerge \/ ApplySmartMergeAgain

SpecMerge == InitMerge /\ [][NextMerge]_vars

-----------------------------------------------------------------------------
(* SpecVault: pure parts                                                   *)

\* generateEncryptionKey(): 32 random bytes. The n-th key generated differs
\* from every key generated before it.
generateEncryptionKey(n) == "key" \o ToString(n)

Sections == <<"general", "state_recent", "goals_progress">>

CipherColumn(s) == s \o "_cipher"

\* A stored ciphertext whose bytes were altered: no key authenticates it.
Tampered(blob) == [blob EXCEPT !.key = "tampered"]

DecryptError == "Failed to decrypt data. Key may be invalid."

\* row.x_cipher ? JSON.parse(await decrypt(row.x_cipher, key)) : EMPTY_x
\* returns a value (SectionValue) unless decrypt throws (~SectionOk).
SectionOk(row, s, key) ==
    IsNullCipher(row[CipherColumn(s)]) \/ decryptOk(row[CipherColumn(s)], key)

SectionValue(row, s, key) ==
    IF IsNullCipher(row[CipherColumn(s)]) THEN EMPTY_KB[s]
    ELSE Parse(decrypt(row[CipherColumn(s)], key))

\* The sections are decrypted one after another; the first decrypt that throws
\* ends the function (0: none throws).
FirstFailure(row, key) ==
    IF \A i \in 1..3 : SectionOk(row, Sections[i], key) THEN 0
    ELSE CHOOSE i \in 1..3 :
            /\ ~SectionOk(row, Sections[i], key)
            /\ \A j \in 1..(i - 1) : SectionOk(row, Sections[j], key)

\* The sections decrypt() was called on before the function ended.
Attempted(row, key) ==
    {Sections[i] : i \in {j \in 1..3 :
        /\ ~IsNullCipher(row[CipherColumn(Sections[j])])
        /\ FirstFailure(row, key) \in {0} \cup j..3}}

decryptDataNoRowFails(data, key) ==
    IF data = <<>>
    THEN [error |-> "PGRST116", kb |-> EMPTY_KB, attempted |-> {}]
    ELSE [error |-> IF FirstFailure(data[1], key) = 0 THEN "" ELSE DecryptError,
          kb |-> [s \in DOMAIN EMPTY_KB |->
                    IF SectionOk(data[1], s, key)
                    THEN SectionValue(data[1], s, key) ELSE EMPTY_KB[s]],
          attempted |-> Attempted(data[1], key)]

decryptDataDefaultsOnFailure(data, key) ==
    IF data = <<>>
    THEN [error |-> "", kb |-> EMPTY_KB, attempted |-> {}]
    ELSE [error |-> "",
          kb |-> [s \in DOMAIN EMPTY_KB |->
                    IF SectionOk(data[1], s, key)
                    THEN SectionValue(data[1], s, key) ELSE EMPTY_KB[s]],
          attempted |-> Attempted(data[1], key)]

\* fetchAndDecryptKB from the rows its select returned: the KB it returns
\* (error = "") or the error it throws; kb is not returned when it throws.
decryptData(data, key) ==
    IF data = <<>>
    THEN [error |-> "", kb |-> EMPTY_KB, attempted |-> {}]
    ELSE [error |-> IF FirstFailure(data[1], key) = 0 THEN "" ELSE DecryptError,
          kb |-> [s \in DOMAIN EMPTY_KB |->
                    IF SectionOk(data[1], s, key)
                    THEN SectionValue(data[1], s, key) ELSE EMPTY_KB[s]],
          attempted |-> Attempted(data[1], key)]

\* if (!user) throw new Error("User not authenticated")
IsAuthenticatedAlways(u) == TRUE

IsAuthenticated(u) == u # Null

\* SecureStore.deleteItemAsync(name)
deleteItemAsyncKeeps(store, name) == store

deleteItemAsync(store, name) == [store EXCEPT ![name] = Null]

\* SecureStore.setItemAsync(name, value)
setItemAsync(store, name, value) == [store EXCEPT ![name] = value]

-----------------------------------------------------------------------------
(* SpecVault: initial state and calls                                      *)

NoVaultCall ==
    [op |-> "none", mode |-> "none", kb |-> EMPTY_KB, retryOnConflict |-> TRUE,
     keyArg |-> Null, enabled |-> FALSE,
     key |-> Null, existing |-> 0, result |-> "none", error |-> "",
     returned |-> EMPTY_KB, value |-> Null,
     \* user.id of the user supabase.auth.getUser() returned
     uid |-> Null,
     \* what the call has done so far
     authed |-> TRUE, tries |-> 0, requests |-> 0, madeKey |-> FALSE,
     disturbed |-> FALSE, selected |-> FALSE, data |-> <<>>, attempted |-> {}]


\* Rows the store can hold when a session starts: none; the row of a first
\* save under the first device key; that row with one ciphertext altered in
\* storage; a row one of whose nullable cipher columns was never written.
VaultRows ==
    {<<>>,
     <<RowOf(Kb0, DeviceKey, 1)>>,
     <<[RowOf(KbB, DeviceKey, 1) EXCEPT !.state_recent_cipher = Tampered(@)]>>,
     <<[RowOf(KbB, DeviceKey, 1) EXCEPT !.goals_progress_cipher = NullCipher]>>}

\* The accounts: the one that owns the rows stored when the session starts,
\* and one that owns no row (created by signUp or the anonymous sign-in).
OtherUser == "u2"

Users == {SignedIn, OtherUser}

\* The rows with their user_id column.
OwnedBy(rows, uid) == [i \in 1..Len(rows) |-> Spread(rows[i], [user_id |-> uid])]

\* Row level security of user_private_kb: auth.uid() = user_id. The rows a
\* request of the session can see among those its filter eq(user_id) selects.
selectWhere(rows, uid, session) ==
    SelectSeq(rows, LAMBDA r : r.user_id = uid /\ r.user_id = session)

\* .update(values).eq("user_id", uid).eq("version", v) sent by the session:
\* the rows it can see and its filter matches are rewritten; when there is
\* none the request is answered with error = null all the same.
updateOwnWhere(rows, values, uid, v, session) ==
    [i \in 1..Len(rows) |->
        IF rows[i].user_id = uid /\ rows[i].user_id = session /\ rows[i].version = v
        THEN Spread(rows[i], values) ELSE rows[i]]

\* .insert({user_id: uid, ...}) sent by the session: "" when the row is
\* accepted, or the code of the error: the WITH CHECK of the insert policy
\* (42501), then UNIQUE(user_id) (23505).
insertError(rows, uid, session) ==
    IF session # uid THEN "42501"
    ELSE IF \E i \in 1..Len(rows) : rows[i].user_id = uid THEN "23505"
    ELSE ""

\* The device holds no key (new device, or the key was deleted) or the first
\* key; nobody is signed in, or the owner of the stored rows is.
InitVault ==
    /\ table \in {OwnedBy(rows, SignedIn) : rows \in VaultRows}
    /\ pc = [p \in Procs |-> "idle"]
    /\ loc = [p \in Procs |-> NoVaultCall]
    /\ calls = 0
    /\ faults = 0
    /\ fn = FnIdle
    /\ user \in {SignedIn, Null}
    /\ secureStore \in {StoreOf(Null, Null), StoreOf(DeviceKey, Null),
                        StoreOf(DeviceKey, "true")}
    /\ generated = 1
    /\ journal = JournalIdle

fetchAndDecryptKB(p) ==
    /\ pc[p] = "idle" /\ calls < MaxVaultCalls
    /\ Goto(p, Spread(NoVaultCall, [op |-> "fetch", mode |-> "fetch"]), "getUser")
    /\ calls' = calls + 1
    /\ UNCHANGED <<table, faults, fn, user, secureStore, generated, journal>>

encryptAndSaveKB(p) ==
    /\ pc[p] = "idle" /\ calls < MaxVaultCalls
    /\ Goto(p, Spread(NoVaultCall, [op |-> "save", mode |-> "save", kb |-> KbA]),
            "getUser")
    /\ calls' = calls + 1
    /\ UNCHANGED <<table, faults, fn, user, secureStore, generated, journal>>

getUserEncryptionKey(p) ==
    /\ pc[p] = "idle" /\ calls < MaxVaultCalls
    /\ Goto(p, Spread(NoVaultCall, [op |-> "getKey", mode |-> "getKey"]), "getItem")
    /\ calls' = calls + 1
    /\ UNCHANGED <<table, faults, fn, user, secureStore, generated, journal>>

hasEncryptionKey(p) ==
    /\ pc[p] = "idle" /\ calls < MaxVaultCalls
    /\ Goto(p, Spread(NoVaultCall, [op |-> "hasKey"]), "hasItem")
    /\ calls' = calls + 1
    /\ UNCHANGED <<table, faults, fn, user, secureStore, generated, journal>>

deleteEncryptionKey(p) ==
    /\ pc[p] = "idle" /\ calls < MaxVaultCalls
    /\ Goto(p, Spread(NoVaultCall, [op |-> "delete"]), "deleteKey")
    /\ calls' = calls + 1
    /\ UNCHANGED <<table, faults, fn, user, secureStore, generated, journal>>

\* setEncryptionKey(key): the key restored is the first device key, or the
\* empty string (the argument is stored as it is).
setEncryptionKey(p) ==
    /\ pc[p] = "idle" /\ calls < MaxVaultCalls
    /\ \E key \in {DeviceKey, ""} :
          Goto(p, Spread(NoVaultCall, [op |-> "setKey", keyArg |-> key]), "setKey")
    /\ calls' = calls + 1
    /\ UNCHANGED <<table, faults, fn, user, secureStore, generated, journal>>

setKeyBackupEnabled(p) ==
    /\ pc[p] = "idle" /\ calls < MaxVaultCalls
    /\ \E enabled \in BOOLEAN :
          Goto(p, Spread(NoVaultCall, [op |-> "setFlag", enabled |-> enabled]),
               "setFlag")
    /\ calls' = calls + 1
    /\ UNCHANGED <<table, faults, fn, user, secureStore, generated, journal>>

\* signOut(): the session ends while calls are running.
SignOut ==
    /\ user # Null /\ calls < MaxVaultCalls
    /\ user' = Null
    /\ calls' = calls + 1
    /\ UNCHANGED <<table, pc, loc, faults, fn, secureStore, generated, journal>>

\* A session is created while calls are running: signIn or signInWithGoogle
\* to the account that owns the stored rows or to the other, or signUp or the
\* anonymous sign-in at start-up, which create an account that owns no row.
\* None of them asks whether a session exists: the new session replaces it.
SignIn ==
    /\ calls < MaxVaultCalls
    /\ \E u \in Users : user' = u
    /\ calls' = calls + 1
    /\ UNCHANGED <<table, pc, loc, faults, fn, secureStore, generated, journal>>

-----------------------------------------------------------------------------
(* SpecVault: the steps of fetchAndDecryptKB and encryptAndSaveKB          *)

\* supabase.auth.getUser() and the check of its result. authed records what
\* the call found when it was entered.
GetUser(p) ==
    /\ pc[p] = "getUser"
    /\ LET l == Spread(loc[p],
                  [tries |-> loc[p].tries + 1, uid |-> user,
                   authed |-> IF loc[p].tries = 0 THEN user # Null
                              ELSE loc[p].authed])
       IN  IF IsAuthenticated(user) THEN Goto(p, l, "getItem")
           ELSE Return(p, l, "err", "User not authenticated")
    /\ UNCHANGED <<table, calls, faults, fn, user, secureStore, generated, journal>>

\* getUserEncryptionKey has its key: the caller goes on with it.
AfterKey(p, l) ==
    IF l.mode \in {"fetch", "refetch"} THEN Goto(p, l, "selectAll")
    ELSE IF l.mode \in {"save", "resave"} THEN Goto(p, l, "selectVersion")
    ELSE Return(p, Spread(l, [value |-> l.key]), "ok", "")

\* getUserEncryptionKey: getItemAsync(ENCRYPTION_KEY_NAME); if (!key) takes
\* null and the empty string as no key, any other value is returned.
GetItem(p) ==
    /\ pc[p] = "getItem"
    /\ LET key == secureStore[ENCRYPTION_KEY_NAME]
       IN  IF key \notin {Null, ""} THEN AfterKey(p, Spread(loc[p], [key |-> key]))
           ELSE Goto(p, loc[p], "setItem")
    /\ UNCHANGED <<table, calls, faults, fn, user, secureStore, generated, journal>>

\* getUserEncryptionKey: the Error its catch throws when the key store throws.
KeyAccessError == "Failed to access encryption key"

\* The key store throws under the read of getUserEncryptionKey: its catch
\* throws the one text.
GetItemFails(p) ==
    /\ pc[p] = "getItem" /\ faults < MaxFaults
    /\ Return(p, loc[p], "err", KeyAccessError)
    /\ faults' = faults + 1
    /\ UNCHANGED <<table, calls, fn, user, secureStore, generated, journal>>

\* getUserEncryptionKey found no key: generateEncryptionKey, setItemAsync.
\* When the key store rejects the write no key is stored and the catch throws.
SetItem(p) ==
    /\ pc[p] = "setItem"
    /\ \/ LET key == generateEncryptionKey(generated + 1)
          IN  /\ secureStore' = setItemAsync(secureStore, ENCRYPTION_KEY_NAME, key)
              /\ AfterKey(p, Spread(loc[p], [key |-> key, madeKey |-> TRUE]))
              /\ generated' = generated + 1
              /\ faults' = faults
       \/ /\ faults < MaxFaults
          /\ Return(p, loc[p], "err", KeyAccessError)
          /\ faults' = faults + 1
          /\ UNCHANGED <<secureStore, generated>>
    /\ UNCHANGED <<table, calls, fn, user, journal>>

\* fetchAndDecryptKB: select * eq(user_id, user.id), answered with the rows
\* the session of that moment can see; then the sections are decrypted. Inside
\* the conflict branch of encryptAndSaveKB the result is merged and saved again.
SelectAll(p) ==
    /\ pc[p] = "selectAll"
    /\ LET data == selectWhere(table, loc[p].uid, user)
           r == decryptData(data, loc[p].key)
           l == Spread(loc[p], [selected |-> TRUE, data |-> data,
                                attempted |-> r.attempted,
                                requests |-> loc[p].requests + 1])
       IN  IF r.error # "" THEN Return(p, l, "err", r.error)
           ELSE IF l.mode = "fetch"
           THEN Return(p, Spread(l, [returned |-> r.kb]), "ok", "")
           ELSE Goto(p, Spread(l, [mode |-> "resave",
                                   kb |-> mergeKBs(r.kb, l.kb),
                                   retryOnConflict |-> FALSE]), "getUser")
    /\ UNCHANGED <<table, calls, faults, fn, user, secureStore, generated, journal>>

SelectAllFails(p) ==
    /\ pc[p] = "selectAll" /\ faults < MaxFaults
    /\ \E code \in ErrorCodes :
          Return(p, Spread(loc[p], [requests |-> loc[p].requests + 1]), "err", code)
    /\ faults' = faults + 1
    /\ UNCHANGED <<table, calls, fn, user, secureStore, generated, journal>>

\* encryptAndSaveKB: the sections are encrypted, then select id, version.
SelectVersion(p) ==
    /\ pc[p] = "selectVersion"
    /\ LET existingRows == selectWhere(table, loc[p].uid, user)
       IN  Goto(p, Spread(loc[p],
                 [existing |-> IF existingRows = <<>> THEN 0
                               ELSE existingRows[1].version,
                  requests |-> loc[p].requests + 1]), "write")
    /\ UNCHANGED <<table, calls, faults, fn, user, secureStore, generated, journal>>

SelectVersionFails(p) ==
    /\ pc[p] = "selectVersion" /\ faults < MaxFaults
    /\ Goto(p, Spread(loc[p], [existing |-> 0,
                               requests |-> loc[p].requests + 1]), "write")
    /\ faults' = faults + 1
    /\ UNCHANGED <<table, calls, fn, user, secureStore, generated, journal>>

\* encryptAndSaveKB: the update under the version read, as the session of
\* that moment; answered without error whether or not it matched a row.
UpdateRow(p) ==
    /\ pc[p] = "write" /\ loc[p].existing # 0
    /\ LET l == loc[p]
       IN  /\ table' = updateOwnWhere(table,
                          Spread(Ciphers(l.kb, l.key),
                                 [version |-> l.existing + 1]),
                          l.uid, l.existing, user)
           /\ Return(p, Spread(l, [requests |-> l.requests + 1]), "ok", "")
    /\ UNCHANGED <<calls, faults, fn, user, secureStore, generated, journal>>

UpdateRowFails(p) ==
    /\ pc[p] = "write" /\ loc[p].existing # 0 /\ faults < MaxFaults
    /\ \E code \in ErrorCodes, applied \in BOOLEAN :
          /\ applied => MayBeApplied(code)
          /\ table' = IF applied
                      THEN updateOwnWhere(table,
                              Spread(Ciphers(loc[p].kb, loc[p].key),
                                     [version |-> loc[p].existing + 1]),
                              loc[p].uid, loc[p].existing, user)
                      ELSE table
          /\ LET l == Spread(loc[p], [requests |-> loc[p].requests + 1])
             IN  IF code = "PGRST116" /\ l.retryOnConflict
                 THEN Goto(p, Spread(l, [mode |-> "refetch"]), "getUser")
                 ELSE Return(p, l, "err", code)
    /\ faults' = faults + 1
    /\ UNCHANGED <<calls, fn, user, secureStore, generated, journal>>

\* encryptAndSaveKB: the insert of a row of user.id, as the session of that
\* moment.
InsertRow(p) ==
    /\ pc[p] = "write" /\ loc[p].existing = 0
    /\ LET l == Spread(loc[p], [requests |-> loc[p].requests + 1])
           error == insertError(table, l.uid, user)
       IN  IF error = ""
           THEN /\ table' = table \o OwnedBy(<<RowOf(l.kb, l.key, 1)>>, l.uid)
                /\ Return(p, l, "ok", "")
           ELSE /\ table' = table
                /\ Return(p, l, "err", error)
    /\ UNCHANGED <<calls, faults, fn, user, secureStore, generated, journal>>

\* The insert request fails in transport: the error is thrown; the row was
\* not written, or it was (it is accepted) and the answer was lost.
InsertRowFails(p) ==
    /\ pc[p] = "write" /\ loc[p].existing = 0 /\ faults < MaxFaults
    /\ \E applied \in BOOLEAN :
          /\ applied => insertError(table, loc[p].uid, user) = ""
          /\ table' = IF applied
                      THEN table \o OwnedBy(<<RowOf(loc[p].kb, loc[p].key, 1)>>,
                                            loc[p].uid)
                      ELSE table
    /\ Return(p, Spread(loc[p], [requests |-> loc[p].requests + 1]), "err", "OTHER")
    /\ faults' = faults + 1
    /\ UNCHANGED <<calls, fn, user, secureStore, generated, journal>>

-----------------------------------------------------------------------------
(* SpecVault: the steps of the key store operations                        *)

\* hasEncryptionKey: getItemAsync(ENCRYPTION_KEY_NAME) !== null; when the key
\* store rejects the read its catch returns false.
HasItem(p) ==
    /\ pc[p] = "hasItem"
    /\ \/ /\ Return(p, Spread(loc[p],
                         [value |-> secureStore[ENCRYPTION_KEY_NAME] # Null]),
                    "ok", "")
          /\ faults' = faults
       \/ /\ faults < MaxFaults
          /\ Return(p, Spread(loc[p], [value |-> FALSE]), "ok", "")
          /\ faults' = faults + 1
    /\ UNCHANGED <<table, calls, fn, user, secureStore, generated, journal>>

\* A deleteEncryptionKey or setEncryptionKey of caller p changes the key item:
\* p's locals become l, and every other caller's call is marked disturbed.
KeyItemWritten(p, l) ==
    [q \in Procs |-> IF q = p THEN l ELSE Spread(loc[q], [disturbed |-> TRUE])]

\* deleteEncryptionKey: the key item is deleted, then the backup flag. value
\* records the key the call removed. When the key store rejects a request
\* nothing is deleted by it and the catch throws: the call is over.
DeleteKeyItem(p) ==
    /\ pc[p] = "deleteKey"
    /\ \/ /\ secureStore' = deleteItemAsync(secureStore, ENCRYPTION_KEY_NAME)
          /\ pc' = [pc EXCEPT ![p] = "deleteFlag"]
          /\ loc' = KeyItemWritten(p, Spread(loc[p],
                                        [value |-> secureStore[ENCRYPTION_KEY_NAME]]))
          /\ faults' = faults
       \/ /\ faults < MaxFaults
          /\ Return(p, loc[p], "err", "Failed to delete encryption key")
          /\ faults' = faults + 1
          /\ secureStore' = secureStore
    /\ UNCHANGED <<table, calls, fn, user, generated, journal>>

DeleteFlagItem(p) ==
    /\ pc[p] = "deleteFlag"
    /\ \/ /\ secureStore' = deleteItemAsync(secureStore, KEY_BACKUP_FLAG)
          /\ Return(p, loc[p], "ok", "")
          /\ faults' = faults
       \/ /\ faults < MaxFaults
          /\ Return(p, loc[p], "err", "Failed to delete encryption key")
          /\ faults' = faults + 1
          /\ secureStore' = secureStore
    /\ UNCHANGED <<table, calls, fn, user, generated, journal>>

\* setEncryptionKey(key): the key item is written; when the key store rejects
\* the write it is not, and the catch throws.
SetKeyItem(p) ==
    /\ pc[p] = "setKey"
    /\ \/ /\ secureStore' = setItemAsync(secureStore, ENCRYPTION_KEY_NAME,
                                         loc[p].keyArg)
          /\ pc' = [pc EXCEPT ![p] = "idle"]
          /\ loc' = KeyItemWritten(p, Spread(loc[p], [result |-> "ok", error |-> ""]))
          /\ faults' = faults
       \/ /\ faults < MaxFaults
          /\ Return(p, loc[p], "err", "Failed to set encryption key")
          /\ faults' = faults + 1
          /\ secureStore' = secureStore
    /\ UNCHANGED <<table, calls, fn, user, generated, journal>>

\* setKeyBackupEnabled(enabled): the flag is written; when the key store
\* rejects the write it is not, and the catch throws.
SetFlagItem(p) ==
    /\ pc[p] = "setFlag"
    /\ \/ /\ secureStore' = setItemAsync(secureStore, KEY_BACKUP_FLAG,
                                         IF loc[p].enabled THEN "true" ELSE "false")
          /\ Return(p, loc[p], "ok", "")
          /\ faults' = faults
       \/ /\ faults < MaxFaults
          /\ Return(p, loc[p], "err", "Failed to set key backup flag")
          /\ faults' = faults + 1
          /\ secureStore' = secureStore
    /\ UNCHANGED <<table, calls, fn, user, generated, journal>>

NextVault ==
    \/ SignOut
    \/ SignIn
    \/ \E p \in Procs :
        \/ fetchAndDecryptKB(p)
        \/ encryptAndSaveKB(p)
        \/ getUserEncryptionKey(p)
        \/ hasEncryptionKey(p)
        \/ deleteEncryptionKey(p)
        \/ setEncryptionKey(p)
        \/ setKeyBackupEnabled(p)
        \/ GetUser(p)
        \/ GetItem(p)
        \/ GetItemFails(p)
        \/ SetItem(p)
        \/ SelectAll(p)
        \/ SelectAllFails(p)
        \/ SelectVersion(p)
        \/ SelectVersionFails(p)
        \/ UpdateRow(p)
        \/ UpdateRowFails(p)
        \/ InsertRow(p)
        \/ InsertRowFails(p)
        \/ HasItem(p)
        \/ DeleteKeyItem(p)
        \/ DeleteFlagItem(p)
        \/ SetKeyItem(p)
        \/ SetFlagItem(p)

SpecVault == InitVault /\ [][NextVault]_vars

-----------------------------------------------------------------------------
(* kb-manager.ts: createCompactContext                                     *)

RECURSIVE JoinComma(_)
\* arr.join(", ")
JoinComma(arr) ==
    IF arr = <<>> THEN ""
    ELSE IF Len(arr) = 1 THEN arr[1]
    ELSE arr[1] \o ", " \o JoinComma(Tail(arr))

\* A resolution that names an unmatched record by its identifier.
GoalTextById(currentGoals, id) ==
    LET found == {j \in 1..Len(currentGoals) : currentGoals[j].id = id}
    IN  IF found = {} THEN "Goal " \o id
        ELSE currentGoals[CHOOSE j \in found : \A k \in found : j <= k].text

\* currentGoals.find((g) => g.id === gp.goal_id)?.text || "Unknown goal"
GoalText(currentGoals, id) ==
    LET found == {j \in 1..Len(currentGoals) : currentGoals[j].id = id}
    IN  IF found = {} THEN "Unknown goal"
        ELSE OrString(currentGoals[CHOOSE j \in found : \A k \in found : j <= k].text,
                      "Unknown goal")

createCompactContext(kb, currentGoals) ==
    LET general_facts ==
            (IF kb.general.name_or_alias # ""
             THEN <<"Name: " \o kb.general.name_or_alias>> ELSE <<>>)
            \o SliceFirst(kb.general.bio, 3)
            \o SliceFirst(kb.general.values, 2)
            \o SliceFirst(kb.general.preferences, 2)
        recent_highlights ==
            (IF Len(kb.state_recent.dominant_emotions) > 0
             THEN <<"Recent emotions: "
                     \o JoinComma(SliceFirst(kb.state_recent.dominant_emotions, 3))>>
             ELSE <<>>)
            \o (IF kb.state_recent.mood_score_avg # NullMood
                THEN <<"Avg mood (30d): "
                        \o ToString(kb.state_recent.mood_score_avg) \o ".0/5">>
                ELSE <<>>)
            \o SliceFirst(kb.state_recent.highs, 2)
            \o SliceFirst(kb.state_recent.stressors, 2)
        firstTwo == SliceFirst(kb.goals_progress.goals, 2)
        resolved ==
            [i \in 1..Len(firstTwo) |->
                [goal_text |-> GoalText(currentGoals, firstTwo[i].goal_id),
                 progress_percent |-> firstTwo[i].progress_percent,
                 next_actions |-> SliceFirst(firstTwo[i].next_actions, 2)]]
    IN  [general_facts |-> SliceFirst(general_facts, 7),
         recent_highlights |-> SliceFirst(recent_highlights, 4),
         relevant_goals |->
            SelectSeq(resolved, LAMBDA g : g.goal_text # "Unknown goal")]

-----------------------------------------------------------------------------
(* SpecJournal: app/(tabs)/journal.tsx                                     *)

\* The caller of the KB functions that runs the submission and then its
\* background update.
Submission == "A"

\* The rows of the goals table, which belong to the owner of the stored KB.
GoalRows == {<<>>, <<[id |-> "g1", text |-> "Run a marathon"]>>}

\* .from("goals").select("*").eq("user_id", uid) as the session of that
\* moment, under the policy auth.uid() = user_id.
selectGoals(rows, uid, session) ==
    IF uid = SignedIn /\ session = SignedIn THEN rows ELSE <<>>

\* What getUserGoals() returns once its getUser has returned uid: the rows of
\* its select, or [] from its catch (no user, or the select failed).
GoalsRead(rows, uid, session) == {selectGoals(rows, uid, session), <<>>}

\* The insert of a row with user_id = uid as another session, or as none, is
\* rejected by the WITH CHECK of the insert policy.
RlsError(t) ==
    [code |-> "42501",
     message |-> "new row violates row-level security policy for table \""
                    \o t \o "\""]

\* The errors a failed insert is answered with.
InsertErrors ==
    {[code |-> "OTHER", message |-> "network"],
     [code |-> "OTHER", message |-> ""],
     [code |-> "42P01", message |-> "relation does not exist"],
     [code |-> "PGRST116", message |-> "no rows"]}

\* createJournalEntry: the message of the Error thrown for an insert error.
createJournalEntryError(error) ==
    IF error.code = "42P01"
    THEN "Database table 'journal_entries' does not exist. Please run the SQL schema in Supabase."
    ELSE IF error.code = "PGRST116"
    THEN "No rows returned. This might be an RLS policy issue."
    ELSE OrString(error.message, "Failed to create journal entry")

\* createInsight: the message of the Error thrown for an insert error.
createInsightError(error) == OrString(error.message, "Failed to create insight")

\* generateReflection: the Error thrown before its try when the client was
\* not created, and the one its catch throws for any failure of the request.
ReflectionErrors ==
    {"Gemini API not initialized. Please restart the Expo server after adding your API key to .env",
     "Failed to generate reflection. Please check your API key and internet connection."}

\* encrypt: the Error its catch throws.
EncryptError == "Failed to encrypt data"

SignInError == "You must be signed in to create a journal entry"

InsightSignInError == "You must be signed in to create insights"

OtherIdle == [phase |-> "off", merged |-> <<>>, seen |-> 0]

\* A submission form holding an entry and a rating. kbContext and sentContext
\* hold no element for null and one element for a context.
JournalForm(goals) ==
    [phase |-> "form", goals |-> goals, isLoading |-> FALSE,
     \* user of the getUser of the call of database.ts that is running
     uid |-> Null,
     kbError |-> "", kbContext |-> <<>>,
     \* entry, insight: createJournalEntry, createInsight returned the row
     entry |-> FALSE, reflected |-> FALSE, sentContext |-> <<>>,
     newFacts |-> <<>>, insight |-> FALSE,
     alert |-> "none", error |-> "",
     \* the phase in which the error of the alert was thrown
     thrownIn |-> "",
     bg |-> "none", bgError |-> "", logged |-> FALSE,
     recentEntries |-> FALSE, kbUpdates |-> <<>>, kbSaved |-> FALSE,
     \* const goals = await getUserGoals() of the background update
     bgGoals |-> <<>>,
     goalProgress |-> FALSE,
     \* the smartMergeKB of a background update on another device of the
     \* user, and the changes of the session and of the goals so far
     other |-> OtherIdle, meanwhile |-> 0,
     \* per goal: the ai_progress the background update wrote, if any
     aiProgress |-> [i \in 1..Len(goals) |-> <<>>]]

\* The device holds the key the row was written under, or a later key;
\* nobody is signed in, or the owner of the stored rows is.
InitJournal ==
    /\ table \in {OwnedBy(rows, SignedIn) : rows \in VaultRows}
    /\ pc = [p \in Procs |-> "idle"]
    /\ loc = [p \in Procs |-> NoVaultCall]
    /\ calls = 0
    /\ faults = 0
    /\ fn = FnIdle
    /\ user \in {SignedIn, Null}
    /\ secureStore \in {StoreOf(DeviceKey, Null),
                        StoreOf(generateEncryptionKey(2), Null)}
    /\ generated = 2
    /\ \E goals \in GoalRows : journal = JournalForm(goals)

\* The outer catch of handleRatingSubmit: the error alert.
Fail(j, message) ==
    Spread(j, [phase |-> "done", isLoading |-> FALSE, uid |-> Null,
               alert |-> "error", error |-> message, thrownIn |-> j.phase])

\* The inner try of handleRatingSubmit around the KB load: r is what
\* fetchAndDecryptKB returned or threw, context what createCompactContext
\* made of it.
AfterKBLoadRethrows(j, r, context) ==
    IF r.error # "" THEN Fail(Spread(j, [kbError |-> r.error]), r.error)
    ELSE Spread(j, [phase |-> "createEntry", kbContext |-> <<context>>])

AfterKBLoad(j, r, context) ==
    IF r.error # ""
    THEN Spread(j, [phase |-> "createEntry", kbError |-> r.error, kbContext |-> <<>>])
    ELSE Spread(j, [phase |-> "createEntry", kbContext |-> <<context>>])

\* updateKBInBackground(...).catch((err) => console.error(...))
CatchBackgroundShowsAlert(j, err) ==
    Spread(j, [bg |-> "failed", bgError |-> err, logged |-> TRUE, uid |-> Null,
               alert |-> "error", error |-> err])

CatchBackground(j, err) ==
    Spread(j, [bg |-> "failed", bgError |-> err, logged |-> TRUE, uid |-> Null])

\* What extractAllKBUpdates returns in the background update when the
\* extract-kb function that is deployed answers.
JournalUpdates ==
    {[general |-> <<>>, state_recent |-> <<>>,
      goals_progress |-> [goals |-> <<>>, updated_at |-> "t2"]],
     [general |-> [bio |-> <<Fact(1)>>],
      state_recent |-> [mood_score_avg |-> 4],
      goals_progress |-> [goals |-> <<GoalItem("g1", 40)>>, updated_at |-> "t2"]],
     [general |-> [bio |-> <<Fact(1)>>],
      state_recent |-> [mood_score_avg |-> 4],
      goals_progress |-> [goals |-> <<>>, updated_at |-> "t2"]],
     [general |-> <<>>, state_recent |-> <<>>,
      goals_progress |-> [goals |-> <<GoalItem("g1", 40), GoalItem("g1", 60)>>,
                          updated_at |-> "t2"]]}

\* kbUpdates.general = {...kbUpdates.general, bio: [...bio, ...newFacts]}
WithReflectionFacts(kbUpdates, newFacts) ==
    IF Len(newFacts) > 0
    THEN Spread(kbUpdates,
            [general |-> Spread(kbUpdates.general,
                [bio |-> Part(kbUpdates.general, "bio") \o newFacts])])
    ELSE kbUpdates

\* Caller p enters fetchAndDecryptKB(), encryptAndSaveKB(kb) or
\* getUserEncryptionKey(); the requests of the call are the steps of SpecVault.
EnterFetch(p) ==
    Goto(p, Spread(NoVaultCall, [op |-> "fetch", mode |-> "fetch"]), "getUser")

EnterSave(p, kb) ==
    Goto(p, Spread(NoVaultCall, [op |-> "save", mode |-> "save", kb |-> kb]),
         "getUser")

EnterGetKey(p) ==
    Goto(p, Spread(NoVaultCall, [op |-> "getKey", mode |-> "getKey"]), "getItem")

\* A step of the submission that makes a request of its own, or none.
JournalStep(j) ==
    /\ journal' = j
    /\ UNCHANGED <<table, pc, loc, calls, faults, fn, user, secureStore, generated>>

\* A step of the submission after which a call of the KB functions is running.
JournalCall(j, entered) ==
    /\ journal' = j
    /\ entered
    /\ UNCHANGED <<table, calls, faults, fn, user, secureStore, generated>>

\* A step of the submission that takes what its call returned or threw: the
\* call is over and its variables are gone.
JournalResult(j) ==
    /\ journal' = j
    /\ loc' = [loc EXCEPT ![Submission] = NoVaultCall]
    /\ UNCHANGED <<table, pc, calls, faults, fn, user, secureStore, generated>>

\* Caller p's call has returned, or thrown.
Returned(p) == pc[p] = "idle" /\ loc[p].result = "ok"

Thrown(p) == pc[p] = "idle" /\ loc[p].result = "err"

\* signOut(), or the session expires, while the submission runs.
SignOutMeanwhile ==
    /\ user # Null /\ journal.meanwhile < MaxMeanwhile
    /\ user' = Null
    /\ journal' = Spread(journal, [meanwhile |-> journal.meanwhile + 1])
    /\ UNCHANGED <<table, pc, loc, calls, faults, fn, secureStore, generated>>

\* A session is created while the submission runs (signIn, signInWithGoogle,
\* signUp, the anonymous sign-in); it replaces the session there is.
SignInMeanwhile ==
    /\ journal.meanwhile < MaxMeanwhile
    /\ \E u \in Users : user' = u
    /\ journal' = Spread(journal, [meanwhile |-> journal.meanwhile + 1])
    /\ UNCHANGED <<table, pc, loc, calls, faults, fn, secureStore, generated>>

\* createGoal(text, timeframe, importance) on the goals screen, or the insert
\* of the onboarding, while the submission runs: the user has a goal.
CreateGoalMeanwhile ==
    /\ user = SignedIn /\ journal.meanwhile < MaxMeanwhile
    /\ journal.goals = <<>> /\ journal.aiProgress = <<>>
    /\ \E goals \in GoalRows \ {<<>>} :
          JournalStep(Spread(journal,
              [goals |-> goals, aiProgress |-> [i \in 1..Len(goals) |-> <<>>],
               meanwhile |-> journal.meanwhile + 1]))

\* updateGoal(id, {text}) on the goals screen while the submission runs.
UpdateGoalMeanwhile ==
    /\ user = SignedIn /\ journal.meanwhile < MaxMeanwhile
    /\ journal.goals # <<>> /\ journal.goals[1].text # "Run a 10k"
    /\ JournalStep(Spread(journal,
          [goals |-> [journal.goals EXCEPT ![1].text = "Run a 10k"],
           meanwhile |-> journal.meanwhile + 1]))

\* deleteGoal(id) on the goals screen while the submission runs: the row is
\* gone, and what was written to it stays on record in aiProgress.
DeleteGoalMeanwhile ==
    /\ user = SignedIn /\ journal.meanwhile < MaxMeanwhile
    /\ journal.goals # <<>>
    /\ JournalStep(Spread(journal, [goals |-> <<>>,
                                    meanwhile |-> journal.meanwhile + 1]))

\* handleRatingSubmit is entered: setIsLoading(true), fetchAndDecryptKB().
HandleRatingSubmit ==
    /\ journal.phase = "form"
    /\ JournalCall(Spread(journal, [phase |-> "loadKB", isLoading |-> TRUE]),
                   EnterFetch(Submission))

\* fetchAndDecryptKB threw: the catch of the inner try.
LoadKBContextFails ==
    /\ journal.phase = "loadKB" /\ Thrown(Submission)
    /\ JournalResult(AfterKBLoad(journal, [error |-> loc[Submission].error],
                               createCompactContext(EMPTY_KB, <<>>)))

\* fetchAndDecryptKB returned: getUserGoals, its getUser.
GetUserGoals ==
    /\ journal.phase = "loadKB" /\ Returned(Submission)
    /\ JournalStep(Spread(journal, [phase |-> "loadGoals", uid |-> user]))

\* getUserGoals returns; createCompactContext(kb, goals).
LoadKBContext ==
    /\ journal.phase = "loadGoals"
    /\ \E goals \in GoalsRead(journal.goals, journal.uid, user) :
          JournalResult(AfterKBLoad(Spread(journal, [uid |-> Null]), [error |-> ""],
                         createCompactContext(loc[Submission].returned, goals)))

\* createJournalEntry: getUser; without a user it throws, with one it goes on
\* to getUserEncryptionKey.
CreateJournalEntryGetUser ==
    /\ journal.phase = "createEntry"
    /\ IF IsAuthenticated(user)
       THEN JournalCall(Spread(journal, [phase |-> "insertEntry", uid |-> user]),
                        EnterGetKey(Submission))
       ELSE JournalStep(Fail(journal, SignInError))

\* createJournalEntry: getUserEncryptionKey threw; or encrypt, and the insert
\* as the session of that moment, which returns the row.
CreateJournalEntry ==
    /\ journal.phase = "insertEntry" /\ pc[Submission] = "idle"
    /\ JournalResult(
          IF Thrown(Submission) THEN Fail(journal, loc[Submission].error)
          ELSE IF user # journal.uid
          THEN Fail(journal, createJournalEntryError(RlsError("journal_entries")))
          ELSE Spread(journal, [phase |-> "reflect", entry |-> TRUE, uid |-> Null]))

\* createJournalEntry: encrypt throws, or the insert is answered with an error.
CreateJournalEntryFails ==
    /\ journal.phase = "insertEntry" /\ Returned(Submission)
    /\ \E message \in {EncryptError}
                        \cup {createJournalEntryError(e) : e \in InsertErrors} :
          JournalResult(Fail(journal, message))

\* generateReflection({entry, rating}, kbContext)
GenerateReflection ==
    /\ journal.phase = "reflect"
    /\ \E newFacts \in {<<>>, <<Fact(5)>>} :
          JournalStep(Spread(journal,
              [phase |-> "insight", reflected |-> TRUE,
               sentContext |-> journal.kbContext, newFacts |-> newFacts]))

GenerateReflectionFails ==
    /\ journal.phase = "reflect"
    /\ \E message \in ReflectionErrors : JournalStep(Fail(journal, message))

\* createInsight(journalEntry.id, fullReflection): getUser; without a user it
\* throws, with one it goes on to getUserEncryptionKey.
CreateInsightGetUser ==
    /\ journal.phase = "insight"
    /\ IF IsAuthenticated(user)
       THEN JournalCall(Spread(journal, [phase |-> "insertInsight", uid |-> user]),
                        EnterGetKey(Submission))
       ELSE JournalStep(Fail(journal, InsightSignInError))

\* createInsight: getUserEncryptionKey threw; or encrypt, and the insert as
\* the session of that moment, which returns the row.
CreateInsight ==
    /\ journal.phase = "insertInsight" /\ pc[Submission] = "idle"
    /\ JournalResult(
          IF Thrown(Submission) THEN Fail(journal, loc[Submission].error)
          ELSE IF user # journal.uid
          THEN Fail(journal, createInsightError(RlsError("insights")))
          ELSE Spread(journal, [phase |-> "startBackground", insight |-> TRUE,
                                uid |-> Null]))

\* createInsight: encrypt throws, or the insert is answered with an error.
CreateInsightFails ==
    /\ journal.phase = "insertInsight" /\ Returned(Submission)
    /\ \E message \in {EncryptError}
                        \cup {createInsightError(e) : e \in InsertErrors} :
          JournalResult(Fail(journal, message))

\* updateKBInBackground(journalEntry, response.newFacts) is started and not
\* awaited; resetForm() follows at once.
StartBackground ==
    /\ journal.phase = "startBackground"
    /\ JournalStep(Spread(journal, [phase |-> "reload", bg |-> "entries"]))

\* await loadTodayEntry() (it catches its own error), setIsLoading(false) and
\* the success alert.
LoadTodayEntry ==
    /\ journal.phase = "reload"
    /\ JournalStep(Spread(journal, [phase |-> "done", isLoading |-> FALSE,
                                    alert |-> "success"]))

\* updateKBInBackground: the 30 getEntriesByDate calls have returned;
\* getUserGoals, its getUser.
BgEntries ==
    /\ journal.bg = "entries"
    /\ JournalStep(Spread(journal, [bg |-> "goals", recentEntries |-> TRUE,
                                    uid |-> user]))

\* updateKBInBackground: getUserGoals returns; fetchAndDecryptKB().
BgGoals ==
    /\ journal.bg = "goals"
    /\ \E goals \in GoalsRead(journal.goals, journal.uid, user) :
          JournalCall(Spread(journal, [bg |-> "fetch", bgGoals |-> goals,
                                       uid |-> Null]),
                      EnterFetch(Submission))

\* updateKBInBackground: fetchAndDecryptKB has returned or thrown.
BgFetch ==
    /\ journal.bg = "fetch" /\ pc[Submission] = "idle"
    /\ JournalResult(IF Thrown(Submission)
                   THEN CatchBackground(journal, loc[Submission].error)
                   ELSE Spread(journal, [bg |-> "extract"]))

\* updateKBInBackground: extractAllKBUpdates, then the reflection's facts,
\* and smartMergeKB(kbUpdates) is entered: its fetchAndDecryptKB().
\* The goal records are the model's answer, taken as it parses; without goals
\* no answer is asked for and the goal list is empty.
BgExtract ==
    /\ journal.bg = "extract"
    /\ \E u \in JournalUpdates :
          /\ journal.bgGoals = <<>> => u.goals_progress.goals = <<>>
          /\ JournalCall(Spread(journal,
                [bg |-> "merge",
                 kbUpdates |-> <<WithReflectionFacts(u, journal.newFacts)>>]),
                EnterFetch(Submission))

\* smartMergeKB: its fetchAndDecryptKB has thrown, or returned the KB the
\* updates are merged onto; encryptAndSaveKB(merged).
BgSmartMerge ==
    /\ journal.bg = "merge" /\ pc[Submission] = "idle"
    /\ IF Thrown(Submission)
       THEN JournalResult(CatchBackground(journal, loc[Submission].error))
       ELSE JournalCall(Spread(journal, [bg |-> "save"]),
               EnterSave(Submission,
                         smartMerge(loc[Submission].returned, journal.kbUpdates[1])))

\* goalsProgressKB.goals.find((gp) => gp.goal_id === id): one element, or none.
FindProgress(records, id) ==
    LET found == {n \in 1..Len(records) : records[n].goal_id = id}
    IN  IF found = {} THEN <<>>
        ELSE <<records[CHOOSE n \in found : \A k \in found : n <= k]>>

\* updateGoalProgressFromKB(goals, goalsProgressKB): the ai_progress written
\* to each goal (no element: the goal has no record and is left as it is).
updateGoalProgressFromKB(goals, goalsProgressKB) ==
    [i \in 1..Len(goals) |->
        LET progressData == FindProgress(goalsProgressKB.goals, goals[i].id)
        IN  IF Len(progressData) = 0 THEN <<>>
            ELSE <<[goal_id |-> goals[i].id,
                    percent |-> progressData[1].progress_percent,
                    momentum_score |-> progressData[1].momentum_score]>>]

\* The ai_progress written to each goal of the user by
\* updateGoalProgressFromKB(goals, kbUpdates.goals_progress), goals being what
\* getUserGoals() returned at the start of the update.
GoalWrites ==
    LET written == updateGoalProgressFromKB(journal.bgGoals,
                                            journal.kbUpdates[1].goals_progress)
    IN  [i \in 1..Len(journal.aiProgress) |->
            IF i <= Len(written) THEN written[i] ELSE <<>>]

\* No goal has a record: updateGoalProgressFromKB calls updateGoal for none.
NoGoalWrites ==
    LET written == updateGoalProgressFromKB(journal.bgGoals,
                                            journal.kbUpdates[1].goals_progress)
    IN  \A i \in 1..Len(written) : written[i] = <<>>

\* updateKBInBackground: smartMergeKB has thrown, or returned; then
\* updateGoalProgressFromKB(goals, kbUpdates.goals_progress), which for a goal
\* with a record calls updateGoal: its getUser, which throws without a user.
BgSave ==
    /\ journal.bg = "save" /\ pc[Submission] = "idle"
    /\ JournalResult(
          IF Thrown(Submission) THEN CatchBackground(journal, loc[Submission].error)
          ELSE LET j == Spread(journal, [kbSaved |-> TRUE])
               IN  IF NoGoalWrites
                   THEN Spread(j, [bg |-> "done", goalProgress |-> TRUE])
                   ELSE IF ~IsAuthenticated(user)
                   THEN CatchBackground(j, "User not authenticated")
                   ELSE Spread(j, [bg |-> "goalProgress", uid |-> user]))

\* updateGoal: .update({ai_progress}).eq("id", id).eq("user_id", uid)
\* .select().single() as the session of that moment: the goal of the session's
\* user is written; a request that finds no row is answered with PGRST116.
BgGoalProgress ==
    /\ journal.bg = "goalProgress"
    /\ JournalStep(
          IF selectGoals(journal.goals, journal.uid, user) = <<>>
          THEN CatchBackground(journal, "PGRST116")
          ELSE Spread(journal, [bg |-> "done", goalProgress |-> TRUE,
                                uid |-> Null, aiProgress |-> GoalWrites]))

\* A request of the background update fails; updateKBInBackground rethrows and
\* the catch attached to its promise receives the error. The requests of its
\* own that throw are getEntriesByDate, extractAllKBUpdates and the update of
\* updateGoal, which the store may have applied before its answer was lost.
BgFails ==
    /\ journal.bg \in {"entries", "extract", "goalProgress"}
    /\ \E applied \in BOOLEAN :
          /\ applied => /\ journal.bg = "goalProgress"
                        /\ selectGoals(journal.goals, journal.uid, user) # <<>>
          /\ JournalStep(CatchBackground(
                Spread(journal, [aiProgress |-> IF applied THEN GoalWrites
                                                ELSE journal.aiProgress]),
                "network"))

\* The requests of an update on another device, where the user stays signed
\* in and the first device key is held: the insert, or the update under the
\* version read, of a save of kb that read version seen.
SaveRows(rows, kb, seen) ==
    IF seen # 0
    THEN updateOwnWhere(rows, Spread(Ciphers(kb, DeviceKey), [version |-> seen + 1]),
                        SignedIn, seen, SignedIn)
    ELSE IF insertError(rows, SignedIn, SignedIn) = ""
    THEN rows \o OwnedBy(<<RowOf(kb, DeviceKey, 1)>>, SignedIn)
    ELSE rows

\* The smartMergeKB of a background update of the user on another device (an
\* entry submitted there) runs beside this one, request by request: the
\* select of its fetchAndDecryptKB, and the merge. It can start at any time.
\* Its extraction found nothing new, or facts, a mood and a record of the goal.
OtherSmartMerge ==
    /\ journal.other.phase = "off" /\ calls < MaxOther
    /\ LET r == decryptData(selectWhere(table, SignedIn, SignedIn), DeviceKey)
       IN  /\ r.error = ""
           /\ \E u \in {x \in JournalUpdates :
                            (x.general = <<>>) <=> (x.goals_progress.goals = <<>>)} :
                 /\ journal.goals = <<>> => u.goals_progress.goals = <<>>
                 /\ journal' = Spread(journal,
                       [other |-> [phase |-> "select",
                                   merged |-> <<smartMerge(r.kb, u)>>,
                                   seen |-> 0]])
    /\ calls' = calls + 1
    /\ UNCHANGED <<table, pc, loc, faults, fn, user, secureStore, generated>>

\* The other smartMergeKB: select id, version.
OtherSaveSelect ==
    /\ journal.other.phase = "select"
    /\ LET existingRows == selectWhere(table, SignedIn, SignedIn)
       IN  JournalStep(Spread(journal,
              [other |-> Spread(journal.other,
                            [phase |-> "save",
                             seen |-> IF existingRows = <<>> THEN 0
                                      ELSE existingRows[1].version])]))

\* The other smartMergeKB: the write; the call ends, with or without error.
OtherSave ==
    /\ journal.other.phase = "save"
    /\ table' = SaveRows(table, journal.other.merged[1], journal.other.seen)
    /\ journal' = Spread(journal, [other |-> OtherIdle])
    /\ UNCHANGED <<pc, loc, calls, faults, fn, user, secureStore, generated>>

NextJournal ==
    \/ HandleRatingSubmit
    \/ LoadKBContextFails
    \/ GetUserGoals
    \/ LoadKBContext
    \/ CreateJournalEntryGetUser
    \/ CreateJournalEntry
    \/ CreateJournalEntryFails
    \/ GenerateReflection
    \/ GenerateReflectionFails
    \/ CreateInsightGetUser
    \/ CreateInsight
    \/ CreateInsightFails
    \/ StartBackground
    \/ LoadTodayEntry
    \/ BgEntries
    \/ BgGoals
    \/ BgFetch
    \/ BgExtract
    \/ BgSmartMerge
    \/ BgSave
    \/ BgGoalProgress
    \/ BgFails
    \/ OtherSmartMerge
    \/ OtherSaveSelect
    \/ OtherSave
    \/ SignOutMeanwhile
    \/ SignInMeanwhile
    \/ CreateGoalMeanwhile
    \/ UpdateGoalMeanwhile
    \/ DeleteGoalMeanwhile
    \/ \E p \in Procs :
        \/ GetUser(p)
        \/ GetItem(p)
        \/ GetItemFails(p)
        \/ SelectAll(p)
        \/ SelectAllFails(p)
        \/ SelectVersion(p)
        \/ SelectVersionFails(p)
        \/ UpdateRow(p)
        \/ UpdateRowFails(p)
        \/ InsertRow(p)
        \/ InsertRowFails(p)

SpecJournal == InitJournal /\ [][NextJournal]_vars

-----------------------------------------------------------------------------
(* SpecExtract: extractAllKBUpdates                                        *)
(* "parallel": the extractors of this repository that call the model       *)
(* themselves and are joined by Promise.all; "edge": the extract-kb edge   *)
(* function called by services/kb-extractors.ts, which journal.tsx imports. *)
(* The source of that function declares const goalsText twice in one block  *)
(* (index.ts:253, 296), so the module does not load and serves no request.  *)

ExtractRoutes == {"parallel", "edge"}

\* What an extractor returns when the model's answer parses.
Extracted(s) ==
    IF s = "general" THEN [bio |-> <<Fact(1)>>]
    ELSE IF s = "state_recent"
    THEN [mood_score_avg |-> 4, window |-> "last_30_days"]
    ELSE [goals |-> <<GoalItem("g1", 40)>>, updated_at |-> "now"]

\* What the catch of an extractor returns: {} for general and state_recent,
\* the current goal records under a new timestamp for goals_progress.
Captured(s, currentProgress) ==
    IF s = "goals_progress"
    THEN [goals |-> currentProgress.goals, updated_at |-> "now"]
    ELSE <<>>

\* A substitute that carries goal records although the user has no goals.
NoGoalsResultKeepsCurrent ==
    [goals |-> <<GoalItem("g1", 10)>>, updated_at |-> "now"]

\* goals.length === 0: no request is made.
NoGoalsResult == [goals |-> <<>>, updated_at |-> "now"]

ExtractCall(route, goals, currentProgress) ==
    [phase |-> "called", route |-> route, goals |-> goals,
     currentProgress |-> currentProgress,
     st |-> [s \in DOMAIN EMPTY_KB |-> "idle"],
     part |-> <<>>, requests |-> 0,
     result |-> "none", error |-> "", out |-> <<>>]

InitExtract ==
    /\ table = <<>>
    /\ pc = [p \in Procs |-> "idle"]
    /\ loc = [p \in Procs |-> NoCall]
    /\ calls = 0
    /\ faults = 0
    /\ user = SignedIn
    /\ secureStore = StoreOf(DeviceKey, Null)
    /\ generated = 1
    /\ journal = JournalIdle
    /\ \E route \in ExtractRoutes, goals \in GoalRows,
          currentProgress \in {EMPTY_GOALS_PROGRESS_KB,
                               [goals |-> <<GoalItem("g1", 10)>>, updated_at |-> "t1"]} :
          fn = ExtractCall(route, goals, currentProgress)

ExtractStep(f) ==
    /\ fn' = f
    /\ UNCHANGED <<table, pc, loc, calls, faults, user, secureStore, generated, journal>>

\* Promise.all([extractGeneralFacts, updateRecentState, updateGoalsProgress]):
\* the three calls are started; updateGoalsProgress returns at once without a
\* request when there are no goals.
extractAllKBUpdatesParallel ==
    /\ fn.phase = "called" /\ fn.route = "parallel"
    /\ ExtractStep(Spread(fn,
          [phase |-> "running",
           st |-> [s \in DOMAIN EMPTY_KB |->
                     IF s = "goals_progress" /\ fn.goals = <<>>
                     THEN "skipped" ELSE "pending"],
           part |-> IF fn.goals = <<>>
                    THEN [goals_progress |-> NoGoalsResult] ELSE <<>>,
           requests |-> IF fn.goals = <<>> THEN 2 ELSE 3]))

\* The model answers extractor s and the answer parses.
ExtractorReturns(s) ==
    /\ fn.phase = "running" /\ fn.st[s] = "pending"
    /\ ExtractStep(Spread(fn, [st |-> Spread(fn.st, s :> "ok"),
                               part |-> Spread(fn.part, s :> Extracted(s))]))

\* The request of extractor s fails or its answer does not parse: its catch.
ExtractorFails(s) ==
    /\ fn.phase = "running" /\ fn.st[s] = "pending"
    /\ ExtractStep(Spread(fn,
          [st |-> Spread(fn.st, s :> "failed"),
           part |-> Spread(fn.part, s :> Captured(s, fn.currentProgress))]))

\* A join that resolves with whatever has arrived so far.
PromiseAllResolvesEarly ==
    /\ fn.phase = "running"
    /\ ExtractStep(Spread(fn, [phase |-> "returned", result |-> "ok",
                               out |-> fn.part]))

\* Promise.all resolves when the three promises have resolved.
PromiseAllResolves ==
    /\ fn.phase = "running"
    /\ \A s \in DOMAIN EMPTY_KB : fn.st[s] \in {"ok", "failed", "skipped"}
    /\ ExtractStep(Spread(fn, [phase |-> "returned", result |-> "ok",
                               out |-> fn.part]))

\* supabase.functions.invoke('extract-kb', {type: 'all', ...}): the function
\* cannot be loaded, the invoke answers with an error and no data, and the
\* client throws it (if (error) throw error). No extraction is run.
extractAllKBUpdates ==
    /\ fn.phase = "called" /\ fn.route = "edge"
    /\ ExtractStep(Spread(fn, [phase |-> "returned", result |-> "err",
                               error |-> "FunctionsHttpError"]))

\* The request does not reach the platform: error is set and thrown.
InvokeFails ==
    /\ fn.phase = "called" /\ fn.route = "edge"
    /\ ExtractStep(Spread(fn, [phase |-> "returned", result |-> "err",
                               error |-> "FunctionsFetchError"]))

NextExtract ==
    \/ extractAllKBUpdatesParallel
    \/ \E s \in DOMAIN EMPTY_KB : ExtractorReturns(s)
    \/ \E s \in DOMAIN EMPTY_KB : ExtractorFails(s)
    \/ PromiseAllResolves
    \/ extractAllKBUpdates
    \/ InvokeFails

SpecExtract == InitExtract /\ [][NextExtract]_vars

-----------------------------------------------------------------------------
(* SpecContext: createCompactContext on drawn inputs                       *)

MaxCtxLen == 4
MaxGoalRecords == 3

\* General sections: with or without a name, a bio of every length up to the
\* bound, values and preferences empty or full.
CtxGenerals ==
    {Spread(EMPTY_GENERAL_KB,
            [name_or_alias |-> n, bio |-> Prefix(b),
             values |-> Prefix(v), preferences |-> Prefix(v)]) :
        n \in {"", "Sam"}, b \in 0..MaxCtxLen, v \in {0, MaxCtxLen}}

CtxStates ==
    {Spread(EMPTY_STATE_KB,
            [dominant_emotions |-> Prefix(e), mood_score_avg |-> m,
             highs |-> Prefix(h), stressors |-> Prefix(h)]) :
        e \in {0, MaxCtxLen}, m \in {NullMood, 3}, h \in {0, MaxCtxLen}}

\* Goal records: for g1 with as many next actions as the bound, for g2 with
\* one, and for a goal that was deleted since, with two.
CtxRecords ==
    {Spread(GoalItem("g1", 40), [next_actions |-> Prefix(MaxCtxLen)]),
     GoalItem("g2", 10),
     Spread(GoalItem("gone", 70), [next_actions |-> Prefix(2)])}

CtxGoalLists == UNION {[1..n -> CtxRecords] : n \in 0..MaxGoalRecords}

\* The goals table of the user: identifiers are its primary key; the text is
\* any text, the empty one included.
CtxCurrentGoals ==
    {<<>>,
     <<[id |-> "g1", text |-> "Run a marathon"]>>,
     <<[id |-> "g2", text |-> "Read more"], [id |-> "g1", text |-> "Run a marathon"]>>,
     <<[id |-> "g1", text |-> ""], [id |-> "g2", text |-> "Read more"]>>}

EmptyContext ==
    [general_facts |-> <<>>, recent_highlights |-> <<>>, relevant_goals |-> <<>>]

InitContext ==
    /\ table = <<>>
    /\ pc = [p \in Procs |-> "idle"]
    /\ loc = [p \in Procs |-> NoCall]
    /\ calls = 0
    /\ faults = 0
    /\ user = SignedIn
    /\ secureStore = StoreOf(DeviceKey, Null)
    /\ generated = 1
    /\ journal = JournalIdle
    /\ \E g \in CtxGenerals, st \in CtxStates, gl \in CtxGoalLists,
          cg \in CtxCurrentGoals :
          fn = [phase |-> "args",
                kb |-> [general |-> g, state_recent |-> st,
                        goals_progress |-> [goals |-> gl, updated_at |-> "t1"]],
                currentGoals |-> cg, out |-> EmptyContext]

\* createCompactContext(kb, currentGoals)
ApplyCreateCompactContext ==
    /\ fn.phase = "args"
    /\ fn' = Spread(fn, [phase |-> "context",
                         out |-> createCompactContext(fn.kb, fn.currentGoals)])
    /\ UNCHANGED <<table, pc, loc, calls, faults, user, secureStore, generated, journal>>

NextContext == ApplyCreateCompactContext

SpecContext == InitContext /\ [][NextContext]_vars

-----------------------------------------------------------------------------
(* SpecCrypto: lib/encryption.ts on strings, keys and blobs                *)
(* A string is its sequence of UTF-16 code units; bytes are numbers.  A    *)
(* base64 text is what atob reads from it: the bytes it decodes to, their  *)
(* number, the bits of its last character that no byte uses, and whether   *)
(* atob accepts it.  atob drops ASCII whitespace before it decodes, takes   *)
(* one or two "=" off the end of a text of 4n characters, and rejects any   *)
(* other character outside the alphabet and a text of 4n+1 characters.      *)
(* AES-GCM is taken as ideal: its                                           *)
(* output opens under the same key bytes and IV and only while unchanged.  *)

MaxStrLen == 2

KEY_SIZE == 256
IV_SIZE == 12
TAG_SIZE == 16

\* 'a', e acute, the byte order mark U+FEFF, and the two halves of U+1F600.
CodeUnits == {97, 233, 65279, 55357, 56832}

Strings == UNION {[1..n -> CodeUnits] : n \in 0..MaxStrLen}

IsHighSurrogate(c) == c \in 55296..56319
IsLowSurrogate(c) == c \in 56320..57343

\* The UTF-8 bytes of one code point.
Utf8Of(cp) ==
    IF cp < 128 THEN <<cp>>
    ELSE IF cp < 2048 THEN <<192 + (cp \div 64), 128 + (cp % 64)>>
    ELSE IF cp < 65536
    THEN <<224 + (cp \div 4096), 128 + ((cp \div 64) % 64), 128 + (cp % 64)>>
    ELSE <<240 + (cp \div 262144), 128 + ((cp \div 4096) % 64),
           128 + ((cp \div 64) % 64), 128 + (cp % 64)>>

RECURSIVE stringToArrayBuffer(_)
\* new TextEncoder().encode(str): a surrogate pair is one code point, a
\* surrogate on its own is encoded as U+FFFD.
stringToArrayBuffer(str) ==
    IF str = <<>> THEN <<>>
    ELSE IF Len(str) >= 2 /\ IsHighSurrogate(str[1]) /\ IsLowSurrogate(str[2])
    THEN Utf8Of(65536 + (str[1] - 55296) * 1024 + (str[2] - 56320))
            \o stringToArrayBuffer(SubSeq(str, 3, Len(str)))
    ELSE IF IsHighSurrogate(str[1]) \/ IsLowSurrogate(str[1])
    THEN Utf8Of(65533) \o stringToArrayBuffer(Tail(str))
    ELSE Utf8Of(str[1]) \o stringToArrayBuffer(Tail(str))

IsContinuation(b) == b \in 128..191

\* The least and the greatest second byte a sequence led by b may have: E0
\* and F0 exclude the overlong forms, ED the surrogates, F4 what lies beyond
\* U+10FFFF.
LowerBoundary(b) == IF b = 224 THEN 160 ELSE IF b = 240 THEN 144 ELSE 128
UpperBoundary(b) == IF b = 237 THEN 159 ELSE IF b = 244 THEN 143 ELSE 191

\* The UTF-16 code units of a code point.
UnitsOf(cp) ==
    IF cp < 65536 THEN <<cp>>
    ELSE <<55296 + ((cp - 65536) \div 1024), 56320 + ((cp - 65536) % 1024)>>

RECURSIVE DecodeUnits(_)
\* The code units of a UTF-8 byte sequence (the decoder is not fatal): a lead
\* byte is one of C2..DF, E0..EF, F0..F4; an ill-formed sequence becomes one
\* U+FFFD for its longest well-formed beginning, and decoding resumes at the
\* byte that broke it.
DecodeUnits(b) ==
    LET At(i) == IF i <= Len(b) THEN b[i] ELSE -1
        From(i) == DecodeUnits(SubSeq(b, i, Len(b)))
        needed == IF b[1] \in 194..223 THEN 1
                  ELSE IF b[1] \in 224..239 THEN 2
                  ELSE IF b[1] \in 240..244 THEN 3 ELSE 0
    IN  IF b = <<>> THEN <<>>
        ELSE IF b[1] < 128 THEN <<b[1]>> \o From(2)
        ELSE IF needed = 0 THEN <<65533>> \o From(2)
        ELSE IF At(2) \notin LowerBoundary(b[1])..UpperBoundary(b[1])
        THEN <<65533>> \o From(2)
        ELSE IF needed = 1
        THEN <<(b[1] - 192) * 64 + (b[2] - 128)>> \o From(3)
        ELSE IF ~IsContinuation(At(3)) THEN <<65533>> \o From(3)
        ELSE IF needed = 2
        THEN <<(b[1] - 224) * 4096 + (b[2] - 128) * 64 + (b[3] - 128)>> \o From(4)
        ELSE IF ~IsContinuation(At(4)) THEN <<65533>> \o From(4)
        ELSE UnitsOf((b[1] - 240) * 262144 + (b[2] - 128) * 4096
                        + (b[3] - 128) * 64 + (b[4] - 128)) \o From(5)

\* new TextDecoder().decode(buffer): ignoreBOM is false, so a leading U+FEFF
\* is not part of the result.
arrayBufferToString(buffer) ==
    LET units == DecodeUnits(buffer)
    IN  IF Len(units) >= 1 /\ units[1] = 65279 THEN Tail(units) ELSE units

\* The bits of the last character of the base64 text of n bytes that belong
\* to no byte.
SlackBits(n) == IF n % 3 = 1 THEN 4 ELSE IF n % 3 = 2 THEN 2 ELSE 0

\* btoa of the bytes: the unused bits are zero.
arrayBufferToBase64(bytes, n) ==
    [bytes |-> bytes, len |-> n, slack |-> 0, wellFormed |-> TRUE]

\* atob: fails on a text it does not accept, discards the unused bits.
base64ToArrayBuffer(base64) == base64.bytes

\* The "=" that end the base64 text of n bytes.
PadCount(n) == (3 - (n % 3)) % 3

\* What atob reads once one character of the text is replaced by an ASCII
\* whitespace character, which atob drops.  Of a single "=": the same bytes,
\* the padding being optional.  Of one of two "=": the "=" left ends a text
\* of 4n+3 characters and is rejected.  Of a data character: without
\* padding, the 4n+3 characters left decode to other bytes, one fewer; with
\* padding, the "=" no longer end a text of 4n characters.
ReplacedBySpace(base64, pad) ==
    IF pad
    THEN IF PadCount(base64.len) = 1 THEN base64
         ELSE [base64 EXCEPT !.wellFormed = FALSE]
    ELSE IF PadCount(base64.len) = 0
    THEN [bytes |-> [kind |-> "shifted", of |-> base64.bytes],
          len |-> base64.len - 1, slack |-> 0, wellFormed |-> TRUE]
    ELSE [base64 EXCEPT !.wellFormed = FALSE]

\* The key texts a caller can pass: two keys of 32 random bytes, the first
\* key written with non-zero unused bits, a text of 5 bytes, and a text with
\* a character outside the alphabet.
KeyTexts ==
    {arrayBufferToBase64("K1", KEY_SIZE \div 8),
     arrayBufferToBase64("K2", KEY_SIZE \div 8),
     [arrayBufferToBase64("K1", KEY_SIZE \div 8) EXCEPT !.slack = 1],
     arrayBufferToBase64("short", 5),
     [arrayBufferToBase64("K2", KEY_SIZE \div 8) EXCEPT !.wellFormed = FALSE]}

\* crypto.subtle.importKey("raw", keyBytes, {name: "AES-GCM"}, ...)
ImportKeyOk(key) == key.wellFormed /\ key.len \in {16, 24, 32}

IvBytes(nonce) == [kind |-> "iv", nonce |-> nonce]

\* crypto.subtle.encrypt: the ciphertext followed by the 16-byte tag.
GcmSeal(keyBytes, iv, plaintextBytes) ==
    [kind |-> "gcm", key |-> keyBytes, iv |-> iv, pt |-> plaintextBytes,
     intact |-> TRUE]

\* crypto.subtle.decrypt authenticates under the key and the IV.
GcmOpens(keyBytes, iv, encrypted) ==
    /\ encrypted.kind = "gcm"
    /\ encrypted.intact
    /\ encrypted.key = keyBytes
    /\ encrypted.iv = iv

\* encrypt(plaintext, key) with the IV getRandomBytesAsync returned: the
\* parts of `${ivBase64}:${ciphertextBase64}`.
encryptText(plaintext, key, nonce) ==
    IF ~ImportKeyOk(key)
    THEN [error |-> "Failed to encrypt data", blob |-> <<>>]
    ELSE LET plaintextBytes == stringToArrayBuffer(plaintext)
             iv == IvBytes(nonce)
         IN  [error |-> "",
              blob |-> <<arrayBufferToBase64(iv, IV_SIZE),
                         arrayBufferToBase64(
                            GcmSeal(base64ToArrayBuffer(key), iv, plaintextBytes),
                            Len(plaintextBytes) + TAG_SIZE)>>]

\* The try block of decrypt: what it returns, or the error thrown inside it.
decryptTry(ciphertext, key) ==
    IF Len(ciphertext) # 2
    THEN [error |-> "Invalid ciphertext format", plaintext |-> <<>>]
    ELSE IF ~ciphertext[1].wellFormed \/ ~ciphertext[2].wellFormed
            \/ ~key.wellFormed
    THEN [error |-> "InvalidCharacterError", plaintext |-> <<>>]
    ELSE IF ~ImportKeyOk(key)
    THEN [error |-> "DataError", plaintext |-> <<>>]
    ELSE IF ~GcmOpens(base64ToArrayBuffer(key),
                      base64ToArrayBuffer(ciphertext[1]),
                      base64ToArrayBuffer(ciphertext[2]))
    THEN [error |-> "OperationError", plaintext |-> <<>>]
    ELSE [error |-> "",
          plaintext |-> arrayBufferToString(base64ToArrayBuffer(ciphertext[2]).pt)]

\* A decrypt that lets the error of its try block through.
decryptTextRethrows(ciphertext, key) == decryptTry(ciphertext, key)

\* decrypt(ciphertext, key): the catch replaces every error.
decryptText(ciphertext, key) ==
    LET r == decryptTry(ciphertext, key)
    IN  IF r.error # "" THEN [error |-> DecryptError, plaintext |-> <<>>] ELSE r

\* One character of the stored blob replaced by another.
Alterations ==
    {"ivByte", "ctByte", "ivSlack", "ctSlack", "ivChar", "ctChar",
     "ivSpace", "ctSpace", "ctPadSpace", "colonGone", "colonAdded"}

OtherBytes == [kind |-> "other"]

CanAlter(blob, a) ==
    /\ Len(blob) = 2
    /\ a = "ivSlack" => SlackBits(blob[1].len) > 0
    /\ a = "ctSlack" => SlackBits(blob[2].len) > 0
    /\ a = "ctPadSpace" => PadCount(blob[2].len) > 0

\* ivByte, ctByte: the text decodes to other bytes.  ivSlack, ctSlack: the
\* last character differs in unused bits only.  ivChar, ctChar: the new
\* character is neither of the alphabet nor whitespace.  ivSpace, ctSpace: a
\* data character became a space or a line feed.  ctPadSpace: the last "="
\* did.  colonGone: the colon became a base64 character.  colonAdded: a
\* base64 character became a colon.
Alter(blob, a) ==
    IF a = "ivByte" THEN [blob EXCEPT ![1].bytes = IvBytes(0)]
    ELSE IF a = "ctByte" THEN [blob EXCEPT ![2].bytes.intact = FALSE]
    ELSE IF a = "ivSlack" THEN [blob EXCEPT ![1].slack = 1]
    ELSE IF a = "ctSlack" THEN [blob EXCEPT ![2].slack = 1]
    ELSE IF a = "ivChar" THEN [blob EXCEPT ![1].wellFormed = FALSE]
    ELSE IF a = "ctChar" THEN [blob EXCEPT ![2].wellFormed = FALSE]
    ELSE IF a = "ivSpace" THEN [blob EXCEPT ![1] = ReplacedBySpace(blob[1], FALSE)]
    ELSE IF a = "ctSpace" THEN [blob EXCEPT ![2] = ReplacedBySpace(blob[2], FALSE)]
    ELSE IF a = "ctPadSpace"
    THEN [blob EXCEPT ![2] = ReplacedBySpace(blob[2], TRUE)]
    ELSE IF a = "colonGone"
    THEN <<arrayBufferToBase64(OtherBytes, blob[1].len + blob[2].len)>>
    ELSE <<blob[1], arrayBufferToBase64(OtherBytes, 0),
           arrayBufferToBase64(OtherBytes, blob[2].len)>>

NoPlaintext == [error |-> "none", plaintext |-> <<>>]

InitCrypto ==
    /\ table = <<>>
    /\ pc = [p \in Procs |-> "idle"]
    /\ loc = [p \in Procs |-> NoCall]
    /\ calls = 0
    /\ faults = 0
    /\ user = SignedIn
    /\ secureStore = StoreOf(DeviceKey, Null)
    /\ generated = 1
    /\ journal = JournalIdle
    /\ \E str \in Strings, key \in KeyTexts, nonce \in {1, 2} :
          fn = [phase |-> "args", s |-> str, key |-> key, nonce |-> nonce,
                encryptError |-> "", blob |-> <<>>, altered |-> "none",
                usedKey |-> key, result |-> NoPlaintext]

CryptoStep(f) ==
    /\ fn' = f
    /\ UNCHANGED <<table, pc, loc, calls, faults, user, secureStore, generated, journal>>

\* encrypt(s, key)
EncryptString ==
    /\ fn.phase = "args"
    /\ LET r == encryptText(fn.s, fn.key, fn.nonce)
       IN  CryptoStep(Spread(fn,
              [phase |-> IF r.error = "" THEN "encrypted" ELSE "failed",
               encryptError |-> r.error, blob |-> r.blob]))

\* The blob is changed where it is stored.
AlterBlob ==
    /\ fn.phase = "encrypted" /\ fn.altered = "none"
    /\ \E a \in Alterations :
          /\ CanAlter(fn.blob, a)
          /\ CryptoStep(Spread(fn, [blob |-> Alter(fn.blob, a), altered |-> a]))

\* decrypt(blob, key)
DecryptBlob ==
    /\ fn.phase = "encrypted"
    /\ \E key \in KeyTexts :
          CryptoStep(Spread(fn, [phase |-> "decrypted", usedKey |-> key,
                                 result |-> decryptText(fn.blob, key)]))

NextCrypto == EncryptString \/ AlterBlob \/ DecryptBlob

SpecCrypto == InitCrypto /\ [][NextCrypto]_vars

-----------------------------------------------------------------------------
(* SpecRecords: the readers of journal entries, insights and chat messages *)
(* (services/database.ts), each row with its plaintext column and its      *)
(* encrypted column.                                                       *)

MaxRecords == 2

CANNOT_DECRYPT == "[Encrypted - cannot decrypt]"

\* Rows as the writers and the migration leave them: written under the device
\* key (plaintext column empty); written under a key the device no longer
\* holds; never encrypted; encrypted later, with the old plaintext column
\* left in place and the encrypted column altered in storage.
RecordRows ==
    {[plain |-> "", cipher |-> encrypt("walked the dog", DeviceKey)],
     [plain |-> "", cipher |-> encrypt("slept badly", "key0")],
     [plain |-> "an old entry", cipher |-> NullCipher],
     [plain |-> "an old entry",
      cipher |-> Tampered(encrypt("an old entry, edited", DeviceKey))]}

RecordLists == UNION {[1..n -> RecordRows] : n \in 0..MaxRecords}

\* The body of entries.map / data.map: the plaintext column, replaced by the
\* decrypted column when there is one, or by the placeholder when decrypt
\* throws.
ReadRecord(row, key) ==
    IF IsNullCipher(row.cipher) THEN row.plain
    ELSE IF decryptOk(row.cipher, key) THEN decrypt(row.cipher, key)
    ELSE CANNOT_DECRYPT

\* decryptJournalEntries(entries) and the second half of getChatMessages:
\* the texts returned; the rows as they are when getUserEncryptionKey throws.
decryptJournalEntries(entries, key, keyFails) ==
    IF entries = <<>> THEN <<>>
    ELSE IF keyFails THEN [i \in 1..Len(entries) |-> entries[i].plain]
    ELSE [i \in 1..Len(entries) |-> ReadRecord(entries[i], key)]

\* getInsightByEntryId after its select: null without a row; the decrypted
\* reflection; the row as it is when the key or decrypt throws.
getInsightByEntryId(data, key, keyFails) ==
    IF data = <<>> THEN <<>>
    ELSE IF /\ ~IsNullCipher(data[1].cipher) /\ ~keyFails
            /\ decryptOk(data[1].cipher, key)
    THEN <<decrypt(data[1].cipher, key)>>
    ELSE <<data[1].plain>>

Readers == {"getEntriesByDate", "getInsightByEntryId", "getChatMessages"}

InitRecords ==
    /\ table = <<>>
    /\ pc = [p \in Procs |-> "idle"]
    /\ loc = [p \in Procs |-> NoCall]
    /\ calls = 0
    /\ faults = 0
    /\ user = SignedIn
    /\ secureStore = StoreOf(DeviceKey, Null)
    /\ generated = 1
    /\ journal = JournalIdle
    /\ \E reader \in Readers, rows \in RecordLists, keyFails \in BOOLEAN :
          fn = [phase |-> "args", reader |-> reader,
                rows |-> IF reader = "getInsightByEntryId"
                         THEN SliceFirst(rows, 1) ELSE rows,
                keyFails |-> keyFails, threw |-> FALSE, out |-> <<>>]

\* The select returns the rows and the reader decrypts them.
ReadRecords ==
    /\ fn.phase = "args"
    /\ LET key == secureStore[ENCRYPTION_KEY_NAME]
       IN  fn' = Spread(fn,
              [phase |-> "read",
               out |-> IF fn.reader = "getInsightByEntryId"
                       THEN getInsightByEntryId(fn.rows, key, fn.keyFails)
                       ELSE decryptJournalEntries(fn.rows, key, fn.keyFails)])
    /\ UNCHANGED <<table, pc, loc, calls, faults, user, secureStore, generated, journal>>

\* The select fails: the reader throws the storage error.
ReadRecordsSelectFails ==
    /\ fn.phase = "args"
    /\ fn' = Spread(fn, [phase |-> "read", threw |-> TRUE])
    /\ UNCHANGED <<table, pc, loc, calls, faults, user, secureStore, generated, journal>>

NextRecords == ReadRecords \/ ReadRecordsSelectFails

SpecRecords == InitRecords /\ [][NextRecords]_vars

-----------------------------------------------------------------------------
(* Properties                                                              *)

\* The KB a fetch would read from the store.
Stored == DecryptRows(table, DeviceKey)

Finished(p) == pc[p] = "idle" /\ loc[p].result # "none"

NoDup(s) == \A i, j \in 1..Len(s) : s[i] = s[j] => i = j

FirstIdx(s, x) == CHOOSE i \in 1..Len(s) : s[i] = x /\ \A j \in 1..(i - 1) : s[j] # x

Min(a, b) == IF a <= b THEN a ELSE b

\* C1: with a row at version 1 and two concurrent encryptAndSaveKB calls that
\* both observed version 1, one call writes version 2 directly and the other,
\* after its conflict and merge, writes version 3; both report success.
C1_ConcurrentSavesReachVersion3 ==
    \A p, q \in Procs :
        ( /\ p # q
          /\ Finished(p) /\ Finished(q)
          /\ loc[p].op = "save" /\ loc[q].op = "save"
          /\ loc[p].firstSeen = 1 /\ loc[q].firstSeen = 1
          /\ ~loc[p].faulted /\ ~loc[q].faulted )
        => /\ table # <<>> /\ table[1].version = 3
           /\ loc[p].result = "ok" /\ loc[q].result = "ok"
           /\ {loc[p].wrote, loc[q].wrote} = {2, 3}

\* C2: an existing row changes only by the conditional update of a save whose
\* observed version equals the stored one, which writes the save's ciphertexts
\* at that version plus 1; an update whose observed version differs from the
\* stored one leaves the row as it was.
C2_ConditionalWrite ==
    [][ /\ (table # <<>> /\ table' # table) =>
            \E p \in Procs :
                /\ pc[p] = "write" /\ pc'[p] # "write"
                /\ loc[p].existing = table[1].version
                /\ table' = <<Spread(Ciphers(loc[p].kb, DeviceKey),
                                     [version |-> table[1].version + 1])>>
        /\ \A p \in Procs :
              ( /\ pc[p] = "write" /\ pc'[p] # "write"
                /\ table # <<>>
                /\ loc[p].existing # table[1].version )
              => table' = table
      ]_vars

\* C2 witness: one save's update took effect at version 2 and another save's
\* update, made with the version it had observed before, changed nothing.
C2_Witness ==
    \E p, q \in Procs :
        /\ p # q
        /\ Finished(p) /\ loc[p].wrote = 2
        /\ Finished(q) /\ loc[q].conflicts = 1 /\ loc[q].existing = 1
        /\ table[1].version = 2
        /\ Stored = loc[p].kb

\* C3: every encryptAndSaveKB update that reports success against an existing
\* row raises the stored version by exactly 1.
C3_SuccessRaisesVersion ==
    [][ \A p \in Procs :
          ( /\ pc[p] = "write" /\ loc[p].existing # 0
            /\ pc'[p] = "idle" /\ loc'[p].result = "ok" )
          => /\ table # <<>> /\ table' # <<>>
             /\ table'[1].version = table[1].version + 1
      ]_vars

\* C4: a call makes at most two write attempts; a call that met a version
\* conflict and still reports success made exactly one retry, whose write
\* did not conflict; a call whose retry conflicted too ends in an error.
C4_ConflictRetriedOnceOrError ==
    \A p \in Procs :
        Finished(p) =>
            /\ loc[p].attempts <= 2
            /\ (loc[p].conflicts >= 1 /\ loc[p].result = "ok")
                   => (loc[p].attempts = 2 /\ loc[p].conflicts = 1
                       /\ loc[p].wrote # 0)

\* The case of C5: saves p and q started from the same version, p's update
\* took effect directly, q's update then found the version moved and entered
\* the conflict branch, re-fetched the row p had written, and wrote its merge.
C5_Case(p, q) ==
    /\ p # q
    /\ Finished(p) /\ Finished(q)
    /\ loc[p].op = "save" /\ loc[q].op = "save"
    /\ loc[p].firstSeen # 0 /\ loc[p].firstSeen = loc[q].firstSeen
    /\ loc[p].attempts = 1 /\ loc[p].wrote = loc[p].firstSeen + 1
    /\ loc[q].attempts = 2 /\ ~loc[q].retryOnConflict /\ loc[q].stale
    /\ loc[q].fetchedVersion = loc[p].wrote
    /\ loc[q].result = "ok" /\ loc[q].wrote = loc[p].wrote + 1

\* x is a non-empty value of a general field (a list or the alias).
NonEmptyValue(k, x) == IF k = "name_or_alias" THEN x # "" ELSE x # <<>>

\* C5 (as claimed): after the second save's conflict and retry, every general
\* field the first save wrote with a non-empty value still holds that value.
C5_RetryKeepsFirstSaveFields ==
    \A p, q \in Procs :
        C5_Case(p, q) =>
            \A k \in DOMAIN EMPTY_GENERAL_KB :
                NonEmptyValue(k, loc[p].arg.general[k])
                    => Stored.general[k] = loc[p].arg.general[k]

\* C5 (amended): after the second save's conflict and retry, a general field
\* the first save wrote with a non-empty value still holds that value when
\* the second save's own value of the field is empty; when it is non-empty,
\* the field holds the second save's value.
C5_RetryKeepsFieldsSecondLeftEmpty ==
    \A p, q \in Procs :
        C5_Case(p, q) =>
            \A k \in DOMAIN EMPTY_GENERAL_KB :
                NonEmptyValue(k, loc[p].arg.general[k])
                    => Stored.general[k] =
                          IF NonEmptyValue(k, loc[q].arg.general[k])
                          THEN loc[q].arg.general[k]
                          ELSE loc[p].arg.general[k]

\* C5 witness: the first save wrote relationships, the second save, whose
\* relationships are empty, retried, and the stored relationships are the
\* first save's.
C5_Witness ==
    \E p, q \in Procs :
        /\ C5_Case(p, q)
        /\ loc[p].arg.general.relationships # <<>>
        /\ loc[q].arg.general.relationships = <<>>
        /\ loc[q].arg.general.bio # <<>>
        /\ Stored.general.relationships = loc[p].arg.general.relationships
        /\ Stored.general.bio = loc[q].arg.general.bio

\* C6: mergeKBs returns, for each general list field and for name_or_alias
\* independently, the incoming value when it is non-empty and the current
\* value otherwise; state_recent and goals_progress are the incoming ones.
C6_MergeKBsPolicy ==
    fn.phase = "mergeKBs" =>
        /\ \A k \in DOMAIN EMPTY_GENERAL_KB :
              fn.out.general[k] =
                 IF NonEmptyValue(k, fn.incoming.general[k])
                 THEN fn.incoming.general[k] ELSE fn.current.general[k]
        /\ DOMAIN fn.out.general = DOMAIN EMPTY_GENERAL_KB
        /\ fn.out.state_recent = fn.incoming.state_recent
        /\ fn.out.goals_progress = fn.incoming.goals_progress

\* C6 witness: a merge whose incoming list is empty and whose incoming alias
\* is not, over a current KB that differs in every section.
C6_Witness ==
    /\ fn.phase = "mergeKBs"
    /\ fn.field = "bio"
    /\ fn.incoming.general.bio = <<>> /\ fn.current.general.bio = Prefix(2)
    /\ fn.incoming.general.name_or_alias = "Alex"
    /\ fn.current.general.name_or_alias = "Sam"
    /\ fn.current.state_recent # fn.incoming.state_recent
    /\ fn.current.goals_progress # fn.incoming.goals_progress
    /\ fn.out.general.bio = Prefix(2)
    /\ fn.out.general.name_or_alias = "Alex"

\* The list named by C8 for current list cur, incoming list inc and cap n:
\* out holds each string of cur \o inc at most once, in the order of first
\* occurrence, and holds exactly the (at most n) strings whose first
\* occurrence is latest.
C8_IsDedupedTail(out, cur, inc, n) ==
    LET all == cur \o inc
    IN  /\ NoDup(out)
        /\ SeqToSet(out) \subseteq SeqToSet(all)
        /\ Len(out) = Min(n, Cardinality(SeqToSet(all)))
        /\ \A i, j \in 1..Len(out) :
              i < j => FirstIdx(all, out[i]) < FirstIdx(all, out[j])
        /\ \A x \in SeqToSet(all) \ SeqToSet(out), y \in SeqToSet(out) :
              FirstIdx(all, x) < FirstIdx(all, y)

\* C8: for every general list field the KB smartMergeKB saves holds current
\* \o incoming, deduplicated at first occurrence, cut to its last N items
\* (15 for relationships, 10 otherwise); cap+1 distinct facts lose the single
\* oldest; ["runs daily"] into ["works at TechCorp"] gives both in that order.
C8_SmartMergeDedupeCap ==
    fn.phase = "smartMerge" =>
        /\ \A f \in GeneralListFields :
              C8_IsDedupedTail(fn.out.general[f], fn.current.general[f],
                               Part(fn.updates.general, f),
                               IF f = "relationships" THEN 15 ELSE 10)
        /\ \A f \in GeneralListFields :
              LET n == IF f = "relationships" THEN 15 ELSE 10
              IN  ( /\ fn.current.general[f] = Prefix(n)
                    /\ Part(fn.updates.general, f) = <<Fact(MaxCurLen + 1)>> )
                  => fn.out.general[f] =
                        Tail(Prefix(n)) \o <<Fact(MaxCurLen + 1)>>
        /\ ( /\ fn.current.general.bio = <<"works at TechCorp">>
             /\ Part(fn.updates.general, "bio") = <<"runs daily">> )
           => fn.out.general.bio = <<"works at TechCorp", "runs daily">>

\* C8 witness: a sixteenth distinct relationship evicts the oldest of fifteen.
C8_Witness ==
    /\ fn.phase = "smartMerge"
    /\ fn.field = "relationships"
    /\ fn.current.general.relationships = Prefix(15)
    /\ fn.updates.general.relationships = <<Fact(MaxCurLen + 1)>>
    /\ Len(fn.out.general.relationships) = 15
    /\ fn.out.general.relationships[1] = Fact(2)
    /\ fn.out.general.relationships[15] = Fact(MaxCurLen + 1)

\* C10: merging one fact twice into a bio list shorter than the cap leaves
\* the fact in the list exactly once, and the second merge changes nothing.
C10_SameFactTwice ==
    ( /\ fn.phase = "smartMergeAgain"
      /\ Len(fn.current.general.bio) < 10
      /\ Len(Part(fn.updates.general, "bio")) = 1 )
    => /\ Cardinality({i \in 1..Len(fn.again.general.bio) :
                          fn.again.general.bio[i] = fn.updates.general.bio[1]}) = 1
       /\ fn.again.general.bio = fn.out.general.bio

\* C10 witness: a new fact merged twice into a bio of three facts.
C10_Witness ==
    /\ fn.phase = "smartMergeAgain"
    /\ fn.field = "bio"
    /\ fn.current.general.bio = Prefix(3)
    /\ fn.updates.general.bio = <<Fact(MaxCurLen + 1)>>
    /\ fn.out.general.bio = Prefix(3) \o <<Fact(MaxCurLen + 1)>>
    /\ fn.again.general.bio = Prefix(3) \o <<Fact(MaxCurLen + 1)>>

\* C7: when smartMergeKB reports success, the stored KB is the smart merge
\* of its updates with the KB that was stored immediately before its write.
C7_SmartMergeOntoStoredKB ==
    [][ \A p \in Procs :
          ( /\ loc[p].op = "smart"
            /\ pc[p] = "write"
            /\ pc'[p] = "idle" /\ loc'[p].result = "ok" )
          => /\ table' # <<>>
             /\ DecryptRows(table', DeviceKey) = smartMerge(Stored, loc[p].arg)
      ]_vars

\* C9: every stored general list field is free of duplicates and within its
\* cap (15 for relationships, 10 for the others).
C9_StoredListsDedupedAndCapped ==
    table # <<>> =>
        \A f \in GeneralListFields :
            /\ NoDup(Stored.general[f])
            /\ Len(Stored.general[f]) <= (IF f = "relationships" THEN 15 ELSE 10)

-----------------------------------------------------------------------------
(* Properties of SpecVault                                                 *)

\* The ciphertext a fetch found in column s of the row it selected.
SeenCipher(p, s) == loc[p].data[1][CipherColumn(s)]

\* Caller p's fetchAndDecryptKB call ended after its select returned rows.
FetchEnded(p) == Finished(p) /\ loc[p].op = "fetch" /\ loc[p].selected

\* C11: fetchAndDecryptKB called by a signed-in user whose select returns no
\* row returns a KB whose three sections are the empty defaults, and raises
\* no error.
C11_NoRowReturnsEmptyKB ==
    \A p \in Procs :
        (FetchEnded(p) /\ loc[p].data = <<>>)
            => /\ loc[p].result = "ok" /\ loc[p].error = ""
               /\ loc[p].returned.general = EMPTY_GENERAL_KB
               /\ loc[p].returned.state_recent = EMPTY_STATE_KB
               /\ loc[p].returned.goals_progress = EMPTY_GOALS_PROGRESS_KB

C11_Witness ==
    \E p \in Procs :
        /\ FetchEnded(p) /\ loc[p].authed /\ loc[p].data = <<>>
        /\ loc[p].returned = EMPTY_KB

\* C12: when the row a fetch selected holds a ciphertext for a section and
\* that ciphertext does not decrypt under the key the fetch uses, the fetch
\* throws the decryption error; a fetch that returns hands back, for every
\* section with a ciphertext, the stored plaintext and never the default.
C12_UnreadableSectionFails ==
    \A p \in Procs :
        (FetchEnded(p) /\ loc[p].data # <<>>)
            => \A i \in 1..3 :
                  ~IsNullCipher(SeenCipher(p, Sections[i]))
                      => IF decryptOk(SeenCipher(p, Sections[i]), loc[p].key)
                         THEN loc[p].result = "ok"
                                => loc[p].returned[Sections[i]]
                                     = SeenCipher(p, Sections[i]).plaintext.json
                         ELSE loc[p].result = "err" /\ loc[p].error = DecryptError

C12_Witness ==
    \E p \in Procs :
        /\ FetchEnded(p) /\ loc[p].data # <<>>
        /\ decryptOk(SeenCipher(p, "general"), loc[p].key)
        /\ ~decryptOk(SeenCipher(p, "state_recent"), loc[p].key)
        /\ loc[p].result = "err"

\* C13: in a fetch that selected a row, decrypt is called on every section
\* that has a ciphertext, whether or not another section failed to decrypt.
C13_SectionsDecryptedIndependently ==
    \A p \in Procs :
        (FetchEnded(p) /\ loc[p].data # <<>>)
            => loc[p].attempted
                 = {Sections[i] : i \in {j \in 1..3 :
                        ~IsNullCipher(SeenCipher(p, Sections[j]))}}

\* The request of the step was rejected, not answered.
Rejected == faults' # faults

\* The step in which caller p's getUserEncryptionKey returns its key.
KeyReturned(p) ==
    /\ pc[p] \in {"getItem", "setItem"} /\ pc'[p] \notin {"getItem", "setItem"}
    /\ ~Rejected

\* C14: a getUserEncryptionKey that returns while the key store holds a key,
\* with no deleteEncryptionKey or setEncryptionKey since the call began,
\* returns that key and leaves it in the store.
C14_GetKeyReturnsStoredKey ==
    [][\A p \in Procs :
          (/\ KeyReturned(p) /\ ~loc[p].disturbed
           /\ secureStore[ENCRYPTION_KEY_NAME] # Null)
              => /\ loc'[p].key = secureStore[ENCRYPTION_KEY_NAME]
                 /\ secureStore'[ENCRYPTION_KEY_NAME]
                      = secureStore[ENCRYPTION_KEY_NAME]]_vars

\* C15: the key item changes only in the generating step of
\* getUserEncryptionKey and in the steps of deleteEncryptionKey and
\* setEncryptionKey; and while the store holds a key, no step of a KB fetch or
\* save (with no delete or restore since the call began) changes it.
C15_KeyChangesOnlyByVaultOps ==
    [][/\ secureStore'[ENCRYPTION_KEY_NAME] # secureStore[ENCRYPTION_KEY_NAME]
            => \E p \in Procs :
                  pc'[p] # pc[p] /\ pc[p] \in {"setItem", "deleteKey", "setKey"}
       /\ \A p \in Procs :
             (/\ pc'[p] # pc[p] /\ loc[p].op \in {"fetch", "save"}
              /\ ~loc[p].disturbed
              /\ secureStore[ENCRYPTION_KEY_NAME] # Null)
                 => secureStore'[ENCRYPTION_KEY_NAME]
                      = secureStore[ENCRYPTION_KEY_NAME]]_vars

\* Some section of the row caller p's fetch selected was encrypted under a
\* key other than the one the fetch used.
SeenUnderOtherKey(p) ==
    \E i \in 1..3 :
        /\ ~IsNullCipher(SeenCipher(p, Sections[i]))
        /\ SeenCipher(p, Sections[i]).key # loc[p].key

\* C16: deleteEncryptionKey removes the key item and then the backup flag,
\* and returns only when both requests were answered; a request the key
\* store rejects deletes nothing and ends the call with an error.
\* hasEncryptionKey reports whether the key item is present, and false when
\* its read is rejected, so it answers false whenever the key item is absent;
\* the getUserEncryptionKey that then finds no key stores a key under
\* which no stored ciphertext decrypts; and a fetch that uses such a new key on
\* a row encrypted under another key throws the decryption error.
C16_DeleteMakesOldDataUnreadable ==
    /\ [][\A p \in Procs :
            /\ (pc[p] = "deleteKey" /\ pc'[p] # pc[p])
                  => IF Rejected
                     THEN /\ pc'[p] = "idle" /\ loc'[p].result = "err"
                          /\ secureStore' = secureStore
                     ELSE /\ pc'[p] = "deleteFlag"
                          /\ secureStore'[ENCRYPTION_KEY_NAME] = Null
            /\ (pc[p] = "deleteFlag" /\ pc'[p] # pc[p])
                  => IF Rejected
                     THEN loc'[p].result = "err" /\ secureStore' = secureStore
                     ELSE /\ loc'[p].result = "ok"
                          /\ secureStore'[KEY_BACKUP_FLAG] = Null
            /\ (pc[p] = "hasItem" /\ pc'[p] # pc[p])
                  => loc'[p].value
                       = (~Rejected /\ secureStore[ENCRYPTION_KEY_NAME] # Null)
            /\ (pc[p] = "setItem" /\ pc'[p] # pc[p] /\ ~Rejected)
                  => /\ secureStore'[ENCRYPTION_KEY_NAME] = loc'[p].key
                     /\ \A r \in 1..Len(table) : \A i \in 1..3 :
                           ~decryptOk(table[r][CipherColumn(Sections[i])],
                                      loc'[p].key)]_vars
    /\ [](\A p \in Procs :
            (/\ FetchEnded(p) /\ loc[p].data # <<>> /\ loc[p].madeKey
             /\ SeenUnderOtherKey(p))
                => loc[p].result = "err" /\ loc[p].error = DecryptError)

\* A deleteEncryptionKey removed the first device key; the fetch that followed
\* generated the key now in the store and failed on the row of the old key.
C16_Witness ==
    \E p, q \in Procs :
        /\ Finished(q) /\ loc[q].op = "delete" /\ loc[q].result = "ok"
        /\ loc[q].value = DeviceKey
        /\ secureStore[KEY_BACKUP_FLAG] = Null
        /\ FetchEnded(p) /\ loc[p].madeKey /\ loc[p].data # <<>>
        /\ secureStore[ENCRYPTION_KEY_NAME] = loc[p].key
        /\ SeenCipher(p, "general").key = DeviceKey
        /\ loc[p].result = "err" /\ loc[p].error = DecryptError

\* C17: a fetchAndDecryptKB or encryptAndSaveKB entered with nobody signed in
\* throws "User not authenticated" at once: it has sent no request to the row
\* store, has not read the key store, and ran its body once.
C17_UnauthenticatedFailsWithoutStoreAccess ==
    \A p \in Procs :
        (loc[p].op \in {"fetch", "save"} /\ loc[p].tries > 0 /\ ~loc[p].authed)
            => /\ Finished(p)
               /\ loc[p].result = "err" /\ loc[p].error = "User not authenticated"
               /\ loc[p].requests = 0 /\ loc[p].tries = 1
               /\ loc[p].key = Null /\ ~loc[p].selected

C17_Witness ==
    \E p, q \in Procs :
        /\ loc[p].op = "fetch" /\ loc[q].op = "save"
        /\ Finished(p) /\ Finished(q)
        /\ ~loc[p].authed /\ ~loc[q].authed
        /\ loc[p].requests = 0 /\ loc[q].requests = 0

-----------------------------------------------------------------------------
(* Properties of SpecJournal                                               *)

\* C18: when the background KB update of a submission has failed, the journal
\* entry and its insight are persisted, the failure is logged, no error alert
\* is shown, and the submission, once it ends, ends in the success alert.
C18_BackgroundFailureNotSurfaced ==
    journal.bg = "failed"
        => /\ journal.entry /\ journal.insight /\ journal.logged
           /\ journal.alert # "error" /\ journal.error = ""
           /\ journal.phase \in {"reload", "done"}
           /\ journal.phase = "done"
                 => journal.alert = "success" /\ ~journal.isLoading

C18_Witness ==
    /\ journal.bg = "failed" /\ journal.bgError = "network" /\ journal.logged
    /\ journal.phase = "done" /\ journal.alert = "success"
    /\ journal.entry /\ journal.insight

-----------------------------------------------------------------------------
(* Properties of SpecExtract                                               *)

\* C20: extractAllKBUpdates does not fail as a whole: when it has ended it
\* has returned a result, in which a section whose extraction failed holds
\* the no-op update and every section extracted successfully holds its result.
C20_ExtractorsFailIndependently ==
    fn.phase = "returned"
        => /\ fn.result = "ok"
           /\ \A s \in DOMAIN EMPTY_KB :
                 /\ fn.st[s] = "failed"
                       => fn.out[s] = Captured(s, fn.currentProgress)
                 /\ fn.st[s] = "ok" => fn.out[s] = Extracted(s)
                 /\ fn.st[s] # "idle"

\* The extraction calls that have ended: answered, failed and caught, or
\* answered without a request because there are no goals.
Completed == {"ok", "failed", "skipped"}

\* C21: extractAllKBUpdates returns its three fields only after all three
\* extraction calls have completed, each with its answer or with its failure
\* captured, and once it has ended no extraction call is still pending.
C21_ReturnsAfterAllCompleted ==
    /\ (fn.phase = "returned" /\ fn.result = "ok")
          => \A s \in DOMAIN EMPTY_KB : fn.st[s] \in Completed
    /\ fn.phase = "returned"
          => \A s \in DOMAIN EMPTY_KB : fn.st[s] # "pending"

\* The parallel orchestrator has returned after one call failed and was
\* caught while the two others answered.
C21_Witness ==
    /\ fn.phase = "returned" /\ fn.result = "ok" /\ fn.route = "parallel"
    /\ fn.st["state_recent"] = "failed"
    /\ fn.st["general"] = "ok" /\ fn.st["goals_progress"] = "ok"
    /\ DOMAIN fn.out = DOMAIN EMPTY_KB

\* C22: with an empty goals list the goals-progress request is never made,
\* and the goals_progress returned is an empty goal list under the current
\* timestamp, whatever the current KB holds.
C22_NoGoalsNoRequest ==
    fn.goals = <<>> =>
        /\ fn.st["goals_progress"] \in {"idle", "skipped"}
        /\ fn.requests <= 2
        /\ (fn.phase = "returned" /\ fn.result = "ok")
              => fn.out["goals_progress"] = [goals |-> <<>>, updated_at |-> "now"]

\* A call of the parallel orchestrator with no goals and a current KB that
\* holds a goal record has returned after two requests.
C22_Witness ==
    /\ fn.goals = <<>> /\ fn.currentProgress.goals # <<>>
    /\ fn.phase = "returned" /\ fn.result = "ok"
    /\ fn.requests = 2 /\ fn.st["goals_progress"] = "skipped"
    /\ fn.out["goals_progress"].goals = <<>>

-----------------------------------------------------------------------------
(* Properties of the merge of smartMergeKB (SpecMerge)                     *)

\* The list fields of state_recent.
StateListFields ==
    {"dominant_emotions", "highs", "lows", "stressors", "protective_factors",
     "red_flags", "suggested_focus"}

\* C23: smartMergeKB builds state_recent field by field: a list field is the
\* incoming one when the update carries it and the current one otherwise, the
\* average mood is the incoming one when it is present and not null and the
\* current one otherwise, window is "last_30_days", and year_summary is the
\* current KB's (absent when the current KB has none), whatever the update
\* carries.
C23_StateRecentFieldByField ==
    fn.phase = "smartMerge" =>
        LET cur == fn.current.state_recent
            inc == Part(fn.updates, "state_recent")
            out == fn.out.state_recent
        IN  /\ out.window = "last_30_days"
            /\ \A k \in StateListFields :
                  out[k] = IF k \in DOMAIN inc THEN inc[k] ELSE cur[k]
            /\ out.mood_score_avg =
                  IF "mood_score_avg" \in DOMAIN inc /\ inc.mood_score_avg # NullMood
                  THEN inc.mood_score_avg ELSE cur.mood_score_avg
            /\ ("year_summary" \in DOMAIN cur) = ("year_summary" \in DOMAIN out)
            /\ "year_summary" \in DOMAIN cur => out.year_summary = cur.year_summary
            /\ DOMAIN out \subseteq DOMAIN EMPTY_STATE_KB \cup {"year_summary"}

\* An update that carries another window, another year_summary, a null mood,
\* an empty list and a non-empty list has been merged onto a state that holds
\* a mood, a summary and lists of its own.
C23_Witness ==
    /\ fn.phase = "smartMerge"
    /\ fn.current.state_recent = RichState
    /\ Has(fn.updates, "state_recent")
    /\ Has(fn.updates.state_recent, "year_summary")
    /\ fn.updates.state_recent.year_summary # RichState.year_summary
    /\ fn.updates.state_recent.window # "last_30_days"
    /\ fn.updates.state_recent.mood_score_avg = NullMood
    /\ fn.out.state_recent.mood_score_avg = 3
    /\ fn.out.state_recent.dominant_emotions = <<"calm">>
    /\ fn.out.state_recent.highs = <<"promoted">>
    /\ fn.out.state_recent.year_summary = "a steady year"

\* C24: smartMergeKB stores the incoming goals_progress as a whole when the
\* update carries one and the current goals_progress unchanged otherwise; no
\* goal record of the current KB survives next to an incoming one.
C24_GoalsProgressReplacedWholesale ==
    fn.phase = "smartMerge" =>
        fn.out.goals_progress =
            IF "goals_progress" \in DOMAIN fn.updates
            THEN fn.updates.goals_progress
            ELSE fn.current.goals_progress

\* A current KB with a record for g1 has been merged with an update that
\* holds a record for g2 only: the result holds the record for g2 only.
C24_Witness ==
    /\ fn.phase = "smartMerge"
    /\ fn.current.goals_progress.goals = <<GoalItem("g1", 40)>>
    /\ Has(fn.updates, "goals_progress")
    /\ fn.updates.goals_progress.goals = <<GoalItem("g2", 10)>>
    /\ fn.out.goals_progress.goals = <<GoalItem("g2", 10)>>

-----------------------------------------------------------------------------
(* Properties of the stored goal records (SpecJournal)                     *)

\* C25: the goals_progress section of every stored row holds at most one
\* record per goal identifier.
C25_OneRecordPerGoal ==
    \A i \in 1..Len(table) :
        ~IsNullCipher(table[i].goals_progress_cipher) =>
            LET goals == Parse(table[i].goals_progress_cipher.plaintext).goals
            IN  \A a, b \in 1..Len(goals) :
                    goals[a].goal_id = goals[b].goal_id => a = b

-----------------------------------------------------------------------------
(* Properties of SpecContext                                               *)

\* C26: createCompactContext returns at most 7 general_facts, at most 4
\* recent_highlights and at most 2 relevant_goals, each with at most 2
\* next_actions, whatever the sizes of the KB and of the goals list.
C26_CompactContextBounds ==
    fn.phase = "context" =>
        /\ Len(fn.out.general_facts) <= 7
        /\ Len(fn.out.recent_highlights) <= 4
        /\ Len(fn.out.relevant_goals) <= 2
        /\ \A n \in 1..Len(fn.out.relevant_goals) :
              Len(fn.out.relevant_goals[n].next_actions) <= 2

\* A KB that offers 8 general facts, 6 highlights and 3 goal records, the
\* first with more than 2 next actions, was compacted to 7, 4 and 2.
C26_Witness ==
    /\ fn.phase = "context"
    /\ fn.kb.general.name_or_alias # "" /\ Len(fn.kb.general.bio) >= 3
    /\ Len(fn.kb.general.values) >= 2 /\ Len(fn.kb.general.preferences) >= 2
    /\ Len(fn.kb.state_recent.dominant_emotions) > 0
    /\ fn.kb.state_recent.mood_score_avg # NullMood
    /\ Len(fn.kb.state_recent.highs) >= 2 /\ Len(fn.kb.state_recent.stressors) >= 2
    /\ Len(fn.kb.goals_progress.goals) = 3
    /\ Len(fn.kb.goals_progress.goals[1].next_actions) > 2
    /\ Len(fn.out.general_facts) = 7
    /\ Len(fn.out.recent_highlights) = 4
    /\ Len(fn.out.relevant_goals) = 2
    /\ Len(fn.out.relevant_goals[1].next_actions) = 2

\* The goal of the table that a record refers to: the indices of the goals
\* with the record's identifier.
LiveGoals(currentGoals, rec) ==
    {j \in 1..Len(currentGoals) : currentGoals[j].id = rec.goal_id}

\* C27: the relevant_goals are, in order, records among the first 2 of
\* goals_progress.goals, each with the text of the goal of the table that has
\* its identifier; a record among the first 2 whose identifier no goal of the
\* table has does not appear, and no relevant goal is named "Unknown goal";
\* a record among the first 2 whose goal has a text does appear.
C27_RelevantGoalsFromFirstTwo ==
    fn.phase = "context" =>
        LET out  == fn.out.relevant_goals
            recs == fn.kb.goals_progress.goals
            m    == Min(2, Len(recs))
        IN  /\ \E idx \in [1..Len(out) -> 1..m] :
                  /\ \A a, b \in 1..Len(out) : a < b => idx[a] < idx[b]
                  /\ \A n \in 1..Len(out) :
                        /\ out[n].progress_percent = recs[idx[n]].progress_percent
                        /\ \E j \in LiveGoals(fn.currentGoals, recs[idx[n]]) :
                              fn.currentGoals[j].text = out[n].goal_text
            /\ \A n \in 1..Len(out) : out[n].goal_text # "Unknown goal"
            /\ \A i \in 1..m :
                  LiveGoals(fn.currentGoals, recs[i]) = {}
                      => \A n \in 1..Len(out) :
                            out[n].progress_percent # recs[i].progress_percent
            /\ \A i \in 1..m :
                  (\E j \in LiveGoals(fn.currentGoals, recs[i]) :
                        fn.currentGoals[j].text # "")
                      => \E n \in 1..Len(out) :
                            out[n].progress_percent = recs[i].progress_percent

\* Three records, for a deleted goal, for g1 and for g2, against a table that
\* holds g1 and g2: only g1 is relevant, the record of the deleted goal is
\* dropped and the third record is not looked at.
C27_Witness ==
    /\ fn.phase = "context"
    /\ Len(fn.kb.goals_progress.goals) = 3
    /\ fn.kb.goals_progress.goals[1].goal_id = "gone"
    /\ fn.kb.goals_progress.goals[2].goal_id = "g1"
    /\ fn.kb.goals_progress.goals[3].goal_id = "g2"
    /\ Len(fn.currentGoals) = 2 /\ fn.currentGoals[2].text = "Run a marathon"
    /\ Len(fn.out.relevant_goals) = 1
    /\ fn.out.relevant_goals[1].goal_text = "Run a marathon"

-----------------------------------------------------------------------------
(* Properties of SpecCrypto                                                *)

\* C28: decrypting, under the key it was encrypted with, a blob that was not
\* changed returns the string that was encrypted.
C28_RoundTrip ==
    (fn.phase = "decrypted" /\ fn.altered = "none" /\ fn.usedKey = fn.key)
        => (fn.result.error = "" /\ fn.result.plaintext = fn.s)

\* C29: decrypt returns a plaintext only for a blob that is as encrypt
\* returned it and under the key bytes it was encrypted with.
C29_DecryptsOnlyUnmodifiedBlob ==
    (fn.phase = "decrypted" /\ fn.result.error = "")
        => /\ fn.altered = "none"
           /\ base64ToArrayBuffer(fn.usedKey) = base64ToArrayBuffer(fn.key)

\* C30: decrypt fails on a blob that is not two colon-delimited parts, and
\* every failure of decrypt, whatever its cause, is the same error with the
\* same message.
C30_FailuresIndistinguishable ==
    fn.phase = "decrypted" =>
        /\ Len(fn.blob) # 2 => fn.result.error # ""
        /\ fn.result.error # ""
              => fn.result = [error |-> DecryptError, plaintext |-> <<>>]

\* A blob whose colon was replaced was passed to decrypt with the right key:
\* it failed with the message a wrong key gives.
C30_Witness ==
    /\ fn.phase = "decrypted"
    /\ fn.altered = "colonGone" /\ Len(fn.blob) = 1
    /\ fn.usedKey = fn.key
    /\ fn.result.error = DecryptError

-----------------------------------------------------------------------------
(* Properties of SpecRecords                                               *)

\* C31: in a read whose select succeeded and whose key was obtained, every
\* record is returned; a record whose encrypted column cannot be decrypted is
\* returned with the placeholder text, and every other record with its
\* decrypted text (its plaintext column when it was never encrypted).
C31_UnreadableRecordGetsPlaceholder ==
    (fn.phase = "read" /\ ~fn.threw /\ ~fn.keyFails) =>
        /\ Len(fn.out) = Len(fn.rows)
        /\ \A i \in 1..Len(fn.rows) :
              LET row == fn.rows[i]
              IN  fn.out[i] =
                    IF IsNullCipher(row.cipher) THEN row.plain
                    ELSE IF decryptOk(row.cipher, secureStore[ENCRYPTION_KEY_NAME])
                    THEN row.cipher.plaintext
                    ELSE CANNOT_DECRYPT

-----------------------------------------------------------------------------
(* Properties of Spec: what a save reports and what it wrote               *)

\* C32: when encryptAndSaveKB returns without error, its write took effect:
\* the step that ends the call with success leaves in the store the row made
\* of the encryption of the KB the call was saving (the caller's KB, or its
\* merge with the re-fetched KB on the retry path) at the version after the
\* one the call had observed.
C32_SuccessMeansWritten ==
    [][ \A p \in Procs :
          ( /\ pc[p] = "write"
            /\ pc'[p] = "idle" /\ loc'[p].result = "ok" )
          => /\ table' # <<>>
             /\ table'[1] = RowOf(loc[p].kb, DeviceKey, loc[p].existing + 1)
      ]_vars

\* C33: when two smartMergeKB calls fetched the same stored KB at the same
\* version and both report success, the biography stored in the end holds
\* the facts of both calls' updates.
C33_NoLostUpdateBetweenSmartMerges ==
    \A p, q \in Procs :
        ( /\ p # q
          /\ Finished(p) /\ Finished(q)
          /\ loc[p].op = "smart" /\ loc[q].op = "smart"
          /\ loc[p].result = "ok" /\ loc[q].result = "ok"
          /\ loc[p].fetchedVersion = loc[q].fetchedVersion
          /\ loc[p].currentKB = loc[q].currentKB )
        => /\ SeqToSet(loc[p].arg.general.bio) \subseteq SeqToSet(Stored.general.bio)
           /\ SeqToSet(loc[q].arg.general.bio) \subseteq SeqToSet(Stored.general.bio)

\* C34: when a row of the user exists at the existence read of a save, the
\* call goes on to the conditional update with the version it read, or, when
\* the read failed, ends with the error of the read; it never goes on to the
\* insert.
C34_ExistingRowNeverInserted ==
    [][ \A p \in Procs :
          ( /\ pc[p] = "select" /\ pc'[p] # "select"
            /\ table # <<>> )
          => \/ /\ pc'[p] = "write"
                /\ loc'[p].existing = table[1].version
             \/ /\ pc'[p] = "idle"
                /\ loc'[p].result = "err" /\ loc'[p].error \in ErrorCodes
      ]_vars

\* C35: the store never holds more than one row of the user; an insert made
\* while no row exists stores the call's KB at version 1 and reports success,
\* an insert made while a row exists changes nothing and ends the call with
\* the error of the store, without another attempt. An insert whose request
\* fails ends the call with the error without another attempt as well, and
\* it has written nothing, or, no row existing, the call's KB at version 1.
C35_AtMostOneRow ==
    /\ [](Len(table) <= 1)
    /\ [][ \A p \in Procs :
             ( /\ pc[p] = "write" /\ loc[p].existing = 0
               /\ pc'[p] # "write" )
             => /\ pc'[p] = "idle"
                /\ loc'[p].attempts = loc[p].attempts + 1
                /\ IF faults' # faults
                   THEN /\ loc'[p].result = "err" /\ loc'[p].error \in ErrorCodes
                        /\ \/ table' = table
                           \/ /\ table = <<>>
                              /\ table' = <<RowOf(loc[p].kb, DeviceKey, 1)>>
                   ELSE IF table = <<>>
                   THEN /\ loc'[p].result = "ok"
                        /\ table' = <<RowOf(loc[p].kb, DeviceKey, 1)>>
                   ELSE /\ loc'[p].result = "err" /\ loc'[p].error = "23505"
                        /\ table' = table
         ]_vars

\* C35 witness: two saves both read that no row exists and both inserted; one
\* stored its KB at version 1, the other ended with the store's error after
\* its only attempt, and the row is the first one's.
C35_Witness ==
    \E p, q \in Procs :
        /\ p # q
        /\ Finished(p) /\ Finished(q)
        /\ loc[p].op = "save" /\ loc[q].op = "save"
        /\ ~loc[p].faulted /\ ~loc[q].faulted
        /\ loc[p].existing = 0 /\ loc[q].existing = 0
        /\ loc[p].result = "ok" /\ loc[p].wrote = 1
        /\ loc[q].result = "err" /\ loc[q].error = "23505"
        /\ loc[q].attempts = 1 /\ loc[q].wrote = 0
        /\ loc[p].kb # loc[q].kb
        /\ table = <<RowOf(loc[p].kb, DeviceKey, 1)>>

\* C37: every step that changes the stored row is the write of one save, and
\* after it the general, state_recent and goals_progress sections of the row
\* are the encryptions of the three sections of that save's KB, at the
\* version that save wrote.
C37_SectionsFromOneSave ==
    [][ table' # table =>
          \E p \in Procs :
              /\ pc[p] = "write" /\ pc'[p] # "write"
              /\ Len(table') = 1
              /\ table'[1].general_cipher =
                     encrypt(Stringify(loc[p].kb.general), DeviceKey)
              /\ table'[1].state_recent_cipher =
                     encrypt(Stringify(loc[p].kb.state_recent), DeviceKey)
              /\ table'[1].goals_progress_cipher =
                     encrypt(Stringify(loc[p].kb.goals_progress), DeviceKey)
              /\ table'[1].version = loc[p].existing + 1
      ]_vars

\* C37 witness: two saves of different KBs wrote the row one after the other;
\* the row at version 2 holds the three sections of the second save and none
\* of the first.
C37_Witness ==
    \E p, q \in Procs :
        /\ p # q
        /\ Finished(p) /\ Finished(q)
        /\ loc[p].wrote = 1 /\ loc[q].wrote = 2
        /\ loc[p].kb.general # loc[q].kb.general
        /\ loc[p].kb.state_recent # loc[q].kb.state_recent
        /\ loc[p].kb.goals_progress # loc[q].kb.goals_progress
        /\ table = <<RowOf(loc[q].kb, DeviceKey, 2)>>

\* C38: the step that ends a call with an error leaves the stored row as it
\* is, and no request of a call that ended with an error has changed the row,
\* whether the error came on the first attempt or on the retry. It fails for
\* an update or insert the store applied and whose answer was lost.
C38_FailedSaveWritesNothing ==
    /\ [][ \A p \in Procs :
             ( /\ pc[p] # "idle"
               /\ pc'[p] = "idle" /\ loc'[p].result = "err" )
             => table' = table
         ]_vars
    /\ [](\A p \in Procs :
             (Finished(p) /\ loc[p].result = "err") => loc[p].wrote = 0)

-----------------------------------------------------------------------------
(* Properties of SpecDelete                                                *)

\* C36: the stored version never decreases: a step that leaves a row in place
\* of a row does not lower its version, and a row stored after a deleteKB
\* carries a version no lower than that of the row the deleteKB removed.
\* Under the policies of the schema a deleteKB removes no row.
C36_VersionNeverDecreases ==
    /\ [][ (table # <<>> /\ table' # <<>>)
              => table'[1].version >= table[1].version ]_vars
    /\ [](\A p \in Procs :
             ( /\ loc[p].op = "delete" /\ loc[p].result = "ok"
               /\ table # <<>> )
             => table[1].version >= loc[p].removed)

\* C36 witness: a deleteKB returned without error while the row was at
\* version 2, and a save has since written version 3.
C36_Witness ==
    \E p, q \in Procs :
        /\ p # q
        /\ Finished(p) /\ loc[p].op = "delete" /\ loc[p].result = "ok"
        /\ loc[p].present = 2
        /\ Finished(q) /\ loc[q].existing = 2 /\ loc[q].wrote = 3
        /\ table # <<>> /\ table[1].version = 3

-----------------------------------------------------------------------------
(* Properties of the background update (SpecJournal)                       *)

\* The records of the goals_progress section the stored row holds.
StoredGoalRecords(rows, key) ==
    LET r == decryptData(rows, key)
    IN  IF r.error # "" THEN <<>> ELSE r.kb.goals_progress.goals

\* The order of the writes of one background update: goal progress is written
\* only after smartMergeKB returned without error, and an update that failed
\* before that has written no ai_progress.
OrderOfBackgroundWrites ==
    /\ journal.goalProgress => journal.kbSaved
    /\ (journal.bg = "failed" /\ ~journal.kbSaved) =>
          /\ ~journal.goalProgress
          /\ \A i \in 1..Len(journal.aiProgress) : journal.aiProgress[i] = <<>>

\* C39: goal progress is written only in a background update whose
\* smartMergeKB has returned without error; an update that failed before that
\* has written no ai_progress; and at the step that writes ai_progress the
\* stored KB holds, for every goal written, a record of that goal with the
\* percentage and momentum written.
C39_GoalProgressOnlyAfterKBSaved ==
    /\ []OrderOfBackgroundWrites
    /\ [][ (~journal.goalProgress /\ journal'.goalProgress) =>
              LET held == StoredGoalRecords(selectWhere(table', SignedIn, SignedIn),
                                            secureStore'[ENCRYPTION_KEY_NAME])
              IN  \A i \in 1..Len(journal'.aiProgress) :
                     \A n \in 1..Len(journal'.aiProgress[i]) :
                        \E k \in 1..Len(held) :
                           /\ held[k].goal_id = journal'.aiProgress[i][n].goal_id
                           /\ held[k].progress_percent =
                                  journal'.aiProgress[i][n].percent
                           /\ held[k].momentum_score =
                                  journal'.aiProgress[i][n].momentum_score
         ]_vars

=============================================================================
